---- MODULE Spec2Model ----
(***************************************************************************)
(* A model of utils/parse_datamodel_sheet.py, the script that turns the    *)
(* OctoPrint API documentation (.rst member tables) into python classes.   *)
(*                                                                         *)
(* Python strings are modelled as tuples of one-character strings, so that *)
(* startswith, endswith, split, replace and strip are computed character   *)
(* by character as the interpreter computes them.  Python's None is the    *)
(* value None below, which is no string of characters.                     *)
(***************************************************************************)
EXTENDS Integers, Sequences, FiniteSets, TLC

(***************************************************************************)
(* Python string primitives.                                               *)
(***************************************************************************)
None == <<"None">>

\* The backtick and the line feed, which have no literal of their own here.
BQ == "BACKTICK"

NL == "\n"

Whitespace == {" ", NL, "\t"}

StartsWith(s, p) == Len(p) <= Len(s) /\ SubSeq(s, 1, Len(p)) = p

EndsWith(s, p) == Len(p) <= Len(s) /\ SubSeq(s, Len(s) - Len(p) + 1, Len(s)) = p

\* F of x, x being computed once and named by the parameter of F (a local
\* variable of the program).
With(x, F(_)) == CHOOSE r \in {F(v) : v \in {x}} : TRUE

\* The least position >= k at which p occurs in s, or 0.
RECURSIVE Find(_, _, _)
Find(s, p, k) ==
    IF k + Len(p) - 1 > Len(s) THEN 0
    ELSE IF SubSeq(s, k, k + Len(p) - 1) = p THEN k
    ELSE Find(s, p, k + 1)

Contains(s, p) == Find(s, p, 1) # 0

\* str.replace(old, new): every non-overlapping occurrence, left to right.
RECURSIVE Replace(_, _, _)
Replace(s, old, new) ==
    With(Find(s, old, 1), LAMBDA k :
        IF k = 0 THEN s
        ELSE SubSeq(s, 1, k - 1) \o new
             \o Replace(SubSeq(s, k + Len(old), Len(s)), old, new))

\* str.split(sep) for a non-empty sep: the list of the pieces.
RECURSIVE Split(_, _)
Split(s, sep) ==
    With(Find(s, sep, 1), LAMBDA k :
        IF k = 0 THEN <<s>>
        ELSE <<SubSeq(s, 1, k - 1)>> \o Split(SubSeq(s, k + Len(sep), Len(s)), sep))

\* sep.join(parts)
RECURSIVE Join(_, _)
Join(sep, parts) ==
    IF parts = <<>> THEN <<>>
    ELSE IF Len(parts) = 1 THEN parts[1]
    ELSE parts[1] \o sep \o Join(sep, Tail(parts))

RECURSIVE LStrip(_, _)
LStrip(s, cs) == IF s # <<>> /\ Head(s) \in cs THEN LStrip(Tail(s), cs) ELSE s

RECURSIVE RStrip(_, _)
RStrip(s, cs) ==
    IF s # <<>> /\ s[Len(s)] \in cs THEN RStrip(SubSeq(s, 1, Len(s) - 1), cs) ELSE s

\* str.strip() and str.strip(chars)
StripChars(s, cs) == RStrip(LStrip(s, cs), cs)

Strip(s) == StripChars(s, Whitespace)

(***************************************************************************)
(* Literals of the script.                                                 *)
(***************************************************************************)
T_str == <<"s", "t", "r">>
T_dict == <<"d", "i", "c", "t">>
T_bool == <<"b", "o", "o", "l">>
T_int == <<"i", "n", "t">>
T_float == <<"f", "l", "o", "a", "t">>
T_list == <<"l", "i", "s", "t">>

RefMarker == <<":", "r", "e", "f", ":">>

KwargsName == <<"*", "*", "k", "w", "a", "r", "g", "s">>

RepeatSuffix == <<"{", "n", "}">>

\* The synonym table of parse_type, as (token, python type) pairs.
type_converter ==
    <<
      <<<<"S", "t", "r", "i", "n", "g">>, T_str>>,
      <<<<"s", "t", "r", "i", "n", "g">>, T_str>>,
      <<<<"u", "r", "l">>, T_str>>,
      <<<<"U", "R", "L">>, T_str>>,
      <<<<"O", "b", "j", "e", "c", "t">>, T_dict>>,
      <<<<"o", "b", "j", "e", "c", "t">>, T_dict>>,
      <<<<"b", "o", "o", "l", "e", "a", "n">>, T_bool>>,
      <<<<"B", "o", "o", "l", "e", "a", "n">>, T_bool>>,
      <<<<"b", "o", "o", "l">>, T_bool>>,
      <<<<"B", "o", "o", "l">>, T_bool>>,
      <<<<"i", "n", "t">>, T_int>>,
      <<<<"i", "n", "t", " ", "o", "r", " ", "n", "u", "l", "l">>, T_int>>,
      <<<<"I", "n", "t", "e", "g", "e", "r">>, T_int>>,
      <<<<"i", "n", "t", "e", "g", "e", "r">>, T_int>>,
      <<<<"N", "u", "m", "b", "e", "r">>, T_float>>,
      <<<<"N", "u", "m", "b", "e", "r", " ", "(", "F", "l", "o", "a", "t", ")">>, T_float>>,
      <<<<"F", "l", "o", "a", "t">>, T_float>>,
      <<<<"f", "l", "o", "a", "t">>, T_float>>,
      <<<<"l", "i", "s", "t">>, T_list>>,
      <<<<"L", "i", "s", "t">>, T_list>>,
      <<<<"U", "n", "i", "x", " ", "T", "i", "m", "e", "s", "t", "a", "m", "p">>, T_int>>,
      <<<<"U", "n", "i", "x", " ", "t", "i", "m", "e", "s", "t", "a", "m", "p">>, T_int>>,
      <<<<"s", "t", "r", "i", "n", "g", " ", "o", "r", " ", "o", "b", "j", "e", "c", "t">>, T_dict>>,
      <<<<"P", "r", "i", "n", "t", "e", "r", " ", "s", "t", "a", "t", "e", " ", "f", "l", "a", "g", "s">>, T_dict>>
    >>

(***************************************************************************)
(* Results of calls.  exc is "" when the call returned and the name of the *)
(* exception when it raised.                                               *)
(***************************************************************************)
Returned(v) == [exc |-> "", val |-> v]

Raised(e) == [exc |-> e, val |-> None]

(***************************************************************************)
(* parse_type: the python type of a type token of the documentation.       *)
(***************************************************************************)
Lookup(type_str) ==
    IF \E k \in 1..Len(type_converter) : type_converter[k][1] = type_str
    THEN type_converter[CHOOSE k \in 1..Len(type_converter) :
                           type_converter[k][1] = type_str][2]
    ELSE None

\* A normalizer that takes an unknown token for a string.
parse_type_defaulting(type_str) ==
    IF \/ StartsWith(type_str, <<"L", "i", "s", "t", " ", "o", "f">>)
       \/ StartsWith(type_str, <<"A", "r", "r", "a", "y", " ", "o", "f">>)
    THEN Returned(T_list)
    ELSE IF \/ StartsWith(type_str, <<"M", "a", "p", " ", "o", "f">>)
            \/ EndsWith(type_str, <<"o", "r", " ", BQ, BQ, "o", "b", "j", "e", "c", "t">>)
    THEN Returned(T_dict)
    ELSE IF StartsWith(type_str, <<"S", "t", "r", "i", "n", "g", ",", " ">>)
    THEN Returned(T_str)
    ELSE With(Lookup(type_str), LAMBDA found :
            IF found # None THEN Returned(found)
            ELSE IF StartsWith(type_str, RefMarker) THEN Returned(type_str)
            ELSE Returned(T_str))

parse_type(type_str) ==
    IF \/ StartsWith(type_str, <<"L", "i", "s", "t", " ", "o", "f">>)
       \/ StartsWith(type_str, <<"A", "r", "r", "a", "y", " ", "o", "f">>)
    THEN Returned(T_list)
    ELSE IF \/ StartsWith(type_str, <<"M", "a", "p", " ", "o", "f">>)
            \/ EndsWith(type_str, <<"o", "r", " ", BQ, BQ, "o", "b", "j", "e", "c", "t">>)
    THEN Returned(T_dict)
    ELSE IF StartsWith(type_str, <<"S", "t", "r", "i", "n", "g", ",", " ">>)
    THEN Returned(T_str)
    ELSE With(Lookup(type_str), LAMBDA found :
            IF found # None THEN Returned(found)
            ELSE IF StartsWith(type_str, RefMarker) THEN Returned(type_str)
            ELSE Raised("Exception"))

(***************************************************************************)
(* A member is the dict parse_member builds: name, type, description and   *)
(* optional.  The second half of parse_class (lines 131-155) assembles the *)
(* members of a class: dotted folding, name rewriting, sort on optional.   *)
(***************************************************************************)
DescText == <<"d">>

Member(n, t, d, o) == [name |-> n, type |-> t, description |-> d, optional |-> o]

Names(members) == [k \in 1..Len(members) |-> members[k].name]

InList(x, list) == \E k \in 1..Len(list) : list[k] = x

\* The dict appended at lines 135-142 for the dotted name m.
Composite(members, m) ==
    Member(Replace(Split(m, <<".">>)[1], <<BQ>>, <<>>), T_dict, None,
           \E k \in 1..Len(members) : members[k].name = m /\ members[k].optional)

\* The removal of line 144 placed inside the if of line 134: a leaf whose
\* prefix is already a name stays.
FoldStepKeepsLeaf(members, names, m) ==
    With(Split(m, <<".">>)[1], LAMBDA prefix :
        IF ~InList(prefix, names)
        THEN [members |-> SelectSeq(Append(members, Composite(members, m)),
                                    LAMBDA n : n.name # m),
              names |-> Append(names, prefix)]
        ELSE [members |-> members, names |-> names])

\* Lines 134-144 for the dotted name m: the members and the names behind it.
FoldStep(members, names, m) ==
    With(Split(m, <<".">>)[1], LAMBDA prefix :
        IF ~InList(prefix, names)
        THEN [members |-> SelectSeq(Append(members, Composite(members, m)),
                                    LAMBDA n : n.name # m),
              names |-> Append(names, prefix)]
        ELSE [members |-> SelectSeq(members, LAMBDA n : n.name # m),
              names |-> names])

\* The loop of lines 132-144 from position k of names; names grows as it runs.
RECURSIVE FoldLoop(_, _, _)
FoldLoop(members, names, k) ==
    IF k > Len(names) THEN members
    ELSE IF Contains(names[k], <<".">>)
    THEN With(FoldStep(members, names, names[k]), LAMBDA step :
            FoldLoop(step.members, step.names, k + 1))
    ELSE FoldLoop(members, names, k + 1)

FoldDotted(members) == FoldLoop(members, Names(members), 1)

\* Lines 147-153 for one member; m["name"][0] of an empty name is an IndexError.
RewriteName(m) ==
    IF EndsWith(m.name, RepeatSuffix)
    THEN Returned([m EXCEPT !.name = Replace(m.name, RepeatSuffix, <<>>),
                            !.type = T_list])
    ELSE IF m.name = <<>>
    THEN Raised("IndexError")
    ELSE IF m.name[1] = "<" /\ m.name[Len(m.name)] = ">"
    THEN Returned([m EXCEPT !.name = KwargsName, !.type = None, !.optional = FALSE])
    ELSE Returned(m)

\* The loop of lines 146-153.
RewriteNames(members) ==
    With([k \in 1..Len(members) |-> RewriteName(members[k])], LAMBDA results :
        IF \E k \in 1..Len(results) : results[k].exc # ""
        THEN Raised("IndexError")
        ELSE Returned([k \in 1..Len(results) |-> results[k].val]))

(***************************************************************************)
(* sorted(list, key = ...) on a boolean key: python's sort is stable and   *)
(* False sorts before True.  Modelled as an insertion sort of the indices. *)
(***************************************************************************)
KeyLess(a, b) == a = FALSE /\ b = TRUE

\* perm with index i inserted behind every index whose key is not greater.
RECURSIVE InsertIndex(_, _, _)
InsertIndex(perm, keys, i) ==
    IF perm = <<>> THEN <<i>>
    ELSE IF KeyLess(keys[i], keys[Head(perm)]) THEN <<i>> \o perm
    ELSE <<Head(perm)>> \o InsertIndex(Tail(perm), keys, i)

RECURSIVE SortedIndices(_, _)
SortedIndices(keys, n) ==
    IF n = 0 THEN <<>> ELSE InsertIndex(SortedIndices(keys, n - 1), keys, n)

SortedByKey(list, keys) ==
    With(SortedIndices(keys, Len(list)), LAMBDA perm :
        [k \in 1..Len(list) |-> list[perm[k]]])

\* A sort that puts the True keys first (the comparison inverted).
SortMembersInverted(members) ==
    SortedByKey(members, [k \in 1..Len(members) |-> ~members[k].optional])

\* Line 155.
SortMembers(members) ==
    SortedByKey(members, [k \in 1..Len(members) |-> members[k].optional])

\* Lines 131-155: the members of the class, or the exception raised on the way.
Assemble(members) ==
    With(RewriteNames(FoldDotted(members)), LAMBDA renamed :
        IF renamed.exc # "" THEN renamed
        ELSE Returned(SortMembers(renamed.val)))

(***************************************************************************)
(* Python list indexing: positions count from 0, negative positions from   *)
(* the end, anything else is an IndexError.                                *)
(***************************************************************************)
HasItem(list, i) == -Len(list) <= i /\ i < Len(list)

Item(list, i) == IF i >= 0 THEN list[i + 1] ELSE list[Len(list) + i + 1]

(***************************************************************************)
(* str.title(): the first letter of every run of letters in upper case,    *)
(* the other letters of the run in lower case.                             *)
(***************************************************************************)
LowerLetters == <<"a", "b", "c", "d", "e", "f", "g", "h", "i", "j", "k", "l", "m", "n", "o", "p", "q", "r", "s", "t", "u", "v", "w", "x", "y", "z">>

UpperLetters == <<"A", "B", "C", "D", "E", "F", "G", "H", "I", "J", "K", "L", "M", "N", "O", "P", "Q", "R", "S", "T", "U", "V", "W", "X", "Y", "Z">>

LetterIndex(c) ==
    IF \E k \in 1..26 : LowerLetters[k] = c \/ UpperLetters[k] = c
    THEN CHOOSE k \in 1..26 : LowerLetters[k] = c \/ UpperLetters[k] = c
    ELSE 0

RECURSIVE TitleFrom(_, _)
TitleFrom(s, inWord) ==
    IF s = <<>> THEN <<>>
    ELSE With(LetterIndex(Head(s)), LAMBDA k :
            IF k = 0 THEN <<Head(s)>> \o TitleFrom(Tail(s), FALSE)
            ELSE <<IF inWord THEN LowerLetters[k] ELSE UpperLetters[k]>>
                 \o TitleFrom(Tail(s), TRUE))

Title(s) == TitleFrom(s, FALSE)

(***************************************************************************)
(* parse_member (lines 86-105): the member that starts at line i and the   *)
(* index of the line behind it.                                            *)
(***************************************************************************)
\* "-".join(line.split("-")[1:]).strip()
AfterDash(line) ==
    With(Split(line, <<"-">>), LAMBDA parts :
        With(Join(<<"-">>, Tail(parts)), LAMBDA joined : Strip(joined)))

\* The while loop of lines 89-96: the least j >= 4 at which it stops.
RECURSIVE BlockLength(_, _, _)
BlockLength(lines, i, j) ==
    IF /\ i + j < Len(lines)
       /\ ~StartsWith(Strip(Item(lines, i + j)), <<"*">>)
       /\ Strip(Item(lines, i + j)) # <<>>
    THEN BlockLength(lines, i, j + 1)
    ELSE j

\* A member that is optional only when its multiplicity is 0..1.
MemberBlockZeroOrOne(lines, i, type_value) ==
    IF ~HasItem(lines, i + 3) THEN Raised("IndexError")
    ELSE With(Split(Item(lines, i + 1), <<"-">>), LAMBDA multiplicity :
            IF Len(multiplicity) < 2 THEN Raised("IndexError")
            ELSE Returned(
                   [member |->
                       Member(Strip(Split(Item(lines, i), <<BQ, BQ>>)[2]),
                              type_value,
                              AfterDash(Item(lines, i + 3)),
                              Strip(multiplicity[2]) = <<"0", ".", ".", "1">>),
                    next |-> i + BlockLength(lines, i, 4)]))

\* Lines 97-105, the type of the member being known.
MemberBlock(lines, i, type_value) ==
    IF ~HasItem(lines, i + 3) THEN Raised("IndexError")
    ELSE With(Split(Item(lines, i + 1), <<"-">>), LAMBDA multiplicity :
            IF Len(multiplicity) < 2 THEN Raised("IndexError")
            ELSE Returned(
                   [member |->
                       Member(Strip(Split(Item(lines, i), <<BQ, BQ>>)[2]),
                              type_value,
                              AfterDash(Item(lines, i + 3)),
                              StartsWith(Strip(multiplicity[2]), <<"0", ".", ".">>)),
                    next |-> i + BlockLength(lines, i, 4)]))

parse_member(lines, i) ==
    IF ~HasItem(lines, i) THEN Raised("IndexError")
    ELSE IF Find(Item(lines, i), <<BQ, BQ>>, 1) = 0 THEN Raised("IndexError")
    ELSE IF ~HasItem(lines, i + 2) THEN Raised("IndexError")
    ELSE With(AfterDash(Item(lines, i + 2)), LAMBDA cell :
         With(StripChars(cell, {BQ}), LAMBDA type_str :
         With(parse_type(type_str), LAMBDA type_value :
             IF type_value.exc # "" THEN type_value
             ELSE MemberBlock(lines, i, type_value.val))))

(***************************************************************************)
(* parse_class (lines 119-159): the class whose header underline is line i *)
(* and the index of the line behind its member table.                      *)
(***************************************************************************)
DescriptionMarker == <<"-", " ", "D", "e", "s", "c", "r", "i", "p", "t", "i", "o", "n">>

AnchorPrefix == <<".", ".", " ", "_">>

\* Line 119.
ClassName(lines, i) ==
    With(Title(Item(lines, i - 1)), LAMBDA titled :
    With(Replace(titled, <<" ">>, <<>>), LAMBDA joined :
    With(Strip(joined), LAMBDA stripped : Replace(stripped, <<BQ>>, <<>>))))

\* Lines 120-121; None when the class gets no "reference" key.
ClassReference(lines, i) ==
    IF i - 3 > 0 /\ StartsWith(Item(lines, i - 3), AnchorPrefix)
    THEN RefMarker \o Strip(SubSeq(Item(lines, i - 3), 5, Len(Item(lines, i - 3))))
    ELSE None

\* The loop of lines 122-123: the index of the marker line, or -1 when the
\* scan runs past the last line (lines[i] is then an IndexError).
RECURSIVE FindMarker(_, _)
FindMarker(lines, i) ==
    IF ~HasItem(lines, i) THEN -1
    ELSE IF Strip(Item(lines, i)) = DescriptionMarker THEN i
    ELSE FindMarker(lines, i + 1)

\* The loop of lines 125-129 from line i, members being those parsed so far.
RECURSIVE ParseMembers(_, _, _)
ParseMembers(lines, i, members) ==
    With(parse_member(lines, i), LAMBDA r :
        IF r.exc # "" THEN r
        ELSE IF r.val.next >= Len(lines) \/ Strip(Item(lines, r.val.next)) = <<>>
        THEN Returned([members |-> Append(members, r.val.member), next |-> r.val.next])
        ELSE ParseMembers(lines, r.val.next, Append(members, r.val.member)))

\* A class dict; the keys "reference", "parent" and "file" hold None while
\* the dict has no such key.
Class(n, ms, r, p, f) ==
    [name |-> n, members |-> ms, reference |-> r, parent |-> p, file |-> f]

\* The default of the parameter parent of parse_class (python's None).
NoParent == Class(None, <<>>, None, None, None)

\* Lines 131-159, the member table having been read up to line next.
ClassOf(lines, i, parent, members, next) ==
    With(Assemble(members), LAMBDA made :
        IF made.exc # "" THEN made
        ELSE Returned(
               [class |-> Class(ClassName(lines, i), made.val, ClassReference(lines, i),
                                IF parent = NoParent THEN None ELSE parent.name, None),
                next |-> next]))

\* A parse_class that returns a class without members when the marker line
\* is not found.
parse_class_tolerant(lines, i, parent) ==
    With(FindMarker(lines, i), LAMBDA marker :
        IF marker < 0 THEN ClassOf(lines, i, parent, <<>>, Len(lines))
        ELSE With(ParseMembers(lines, marker + 1, <<>>), LAMBDA parsed :
                IF parsed.exc # "" THEN parsed
                ELSE ClassOf(lines, i, parent, parsed.val.members, parsed.val.next)))

\* parent is the dict of the parent class, or NoParent.
parse_class(lines, i, parent) ==
    With(FindMarker(lines, i), LAMBDA marker :
        IF marker < 0 THEN Raised("IndexError")
        ELSE With(ParseMembers(lines, marker + 1, <<>>), LAMBDA parsed :
                IF parsed.exc # "" THEN parsed
                ELSE ClassOf(lines, i, parent, parsed.val.members, parsed.val.next)))

(***************************************************************************)
(* main, lines 198-231: the scan of one document.                          *)
(***************************************************************************)
subclass_delimiter == <<"'", "'", "'", "'", "'">>

\* Line 203.
Delimiter(filename) ==
    IF filename # <<"a", "c", "c", "e", "s", "s", ".", "r", "s", "t">> THEN <<"-", "-", "-", "-", "-">> ELSE <<"~", "~", "~", "~", "~">>

\* The while loop of lines 205-215 from line i.  parent is the local of main
\* of that name: 0 while it was never assigned, else a negative position in
\* classes.
RECURSIVE ScanLines(_, _, _, _, _)
ScanLines(lines, i, classes, parent, delimiter) ==
    IF ~(i < Len(lines)) THEN Returned([classes |-> classes, parent |-> parent])
    ELSE IF /\ ~StartsWith(Item(lines, i), delimiter)
            /\ ~StartsWith(Item(lines, i), subclass_delimiter)
    THEN ScanLines(lines, i + 1, classes, parent, delimiter)
    ELSE IF /\ ~StartsWith(Item(lines, i), delimiter)
            /\ (parent = 0 \/ ~HasItem(classes, parent))
    THEN Raised(IF parent = 0 THEN "UnboundLocalError" ELSE "IndexError")
    ELSE With(parse_class(lines, i,
                          IF StartsWith(Item(lines, i), delimiter) THEN NoParent
                          ELSE Item(classes, parent)),
              LAMBDA r :
                  IF r.exc # "" THEN r
                  ELSE ScanLines(lines, r.val.next, Append(classes, r.val.class),
                                 IF StartsWith(Item(lines, i), delimiter) THEN -1
                                 ELSE parent - 1,
                                 delimiter))

\* Line 220.
PythonFilename(filename) == Replace(filename, <<".", "r", "s", "t">>, <<".", "p", "y">>)

\* Lines 222-224.
WithFile(classes, python_filename) ==
    [k \in 1..Len(classes) |-> [classes[k] EXCEPT !.file = python_filename]]

(***************************************************************************)
(* main, lines 237-259: the reference table, the sort and the resolution.  *)
(***************************************************************************)
\* Lines 240-243: a later class overwrites the entry of an earlier one.
LastPublisher(all_json_data, key) ==
    CHOOSE k \in 1..Len(all_json_data) :
        /\ all_json_data[k].reference = key
        /\ \A j \in (k + 1)..Len(all_json_data) : all_json_data[j].reference # key

References(all_json_data) ==
    [key \in {all_json_data[k].reference : k \in 1..Len(all_json_data)} \ {None} |->
        With(all_json_data[LastPublisher(all_json_data, key)], LAMBDA c :
            <<c.name, c.file>>)]

IsPlaceholder(type) == type # None /\ StartsWith(type, RefMarker)

\* The sort key of line 246.
HasPlaceholder(c) == \E k \in 1..Len(c.members) : IsPlaceholder(c.members[k].type)

\* The corpus left in the order of the file (no sort).
SortClassesSkipped(all_json_data) == all_json_data

\* Line 246.
SortClasses(all_json_data) ==
    SortedByKey(all_json_data,
                [k \in 1..Len(all_json_data) |-> HasPlaceholder(all_json_data[k])])

\* Lines 251-254: the key of the table a placeholder names.
TypeRef(type) ==
    IF Contains(type, <<"<">>)
    THEN Returned(RefMarker \o Split(Split(type, <<"<">>)[2], <<">">>)[1] \o <<":">>)
    ELSE IF ~Contains(type, <<BQ>>) THEN Raised("IndexError")
    ELSE Returned(RefMarker \o Split(type, <<BQ>>)[2] \o <<":">>)

\* The member left as it is when its key is not in the table.
ResolveMemberLenient(m, references) ==
    IF ~IsPlaceholder(m.type) THEN Returned(m)
    ELSE With(TypeRef(m.type), LAMBDA type_ref :
            IF type_ref.exc # "" THEN type_ref
            ELSE IF type_ref.val \notin DOMAIN references THEN Returned(m)
            ELSE Returned([m EXCEPT !.type = references[type_ref.val][1]]))

\* The file of the class taken for its name (the other half of the pair).
ResolveMemberByFile(m, references) ==
    IF ~IsPlaceholder(m.type) THEN Returned(m)
    ELSE With(TypeRef(m.type), LAMBDA type_ref :
            IF type_ref.exc # "" THEN type_ref
            ELSE IF type_ref.val \notin DOMAIN references THEN Raised("Exception")
            ELSE Returned([m EXCEPT !.type = references[type_ref.val][2]]))

\* Lines 250-259 for one member.
ResolveMember(m, references) ==
    IF ~IsPlaceholder(m.type) THEN Returned(m)
    ELSE With(TypeRef(m.type), LAMBDA type_ref :
            IF type_ref.exc # "" THEN type_ref
            ELSE IF type_ref.val \notin DOMAIN references THEN Raised("Exception")
            ELSE Returned([m EXCEPT !.type = references[type_ref.val][1]]))

\* The first exception among results, or the list of the values returned.
Collected(results) ==
    IF \E k \in 1..Len(results) : results[k].exc # ""
    THEN results[CHOOSE k \in 1..Len(results) :
                    /\ results[k].exc # ""
                    /\ \A j \in 1..(k - 1) : results[j].exc = ""]
    ELSE Returned([k \in 1..Len(results) |-> results[k].val])

\* The inner loop of lines 249-259 on one class.
ResolveClass(c, references) ==
    With(Collected([k \in 1..Len(c.members) |->
                       ResolveMember(c.members[k], references)]),
         LAMBDA members :
             IF members.exc # "" THEN members
             ELSE Returned([c EXCEPT !.members = members.val]))

\* Lines 248-259: every class with its placeholders resolved, or the
\* exception of the first member that cannot be resolved.
ResolveAll(all_json_data, references) ==
    Collected([k \in 1..Len(all_json_data) |->
                  ResolveClass(all_json_data[k], references)])

(***************************************************************************)
(* main, lines 261-282: the text written for one class.                    *)
(***************************************************************************)
\* The one unit that does not import the datamodel (line 263).
DatamodelUnit == <<"d", "a", "t", "a", "m", "o", "d", "e", "l", ".", "p", "y">>

PARSE_KWARGS_FORMAT == <<"f", "o", "r", " ", "k", ",", " ", "v", " ", "i", "n", " ", "k", "w", "a", "r", "g", "s", ":", NL, " ", " ", " ", " ", " ", " ", " ", " ", " ", " ", " ", " ", "s", "e", "t", "a", "t", "t", "r", "(", "s", "e", "l", "f", ",", " ", "k", ",", " ", "v", ")">>

ImportLine == <<"f", "r", "o", "m", " ", ".", "d", "a", "t", "a", "m", "o", "d", "e", "l", " ", "i", "m", "p", "o", "r", "t", " ", "*", NL, NL>>

\* One element of the list of line 266.
ConstructorArg(m) ==
    m.name \o (IF m.type # None THEN <<" ", ":", " ">> \o m.type ELSE <<>>)
           \o (IF m.optional THEN <<" ", "=", " ", "N", "o", "n", "e">> ELSE <<>>)

\* One element of the list of line 269.
Assignment(m) == <<"s", "e", "l", "f", ".">> \o m.name \o <<" ", "=", " ">> \o m.name

\* Lines 265-275 and the arguments of CLASS_FORMAT.format at lines 277-281.
ConstructorArgs(c) ==
    Join(<<",", " ">>, [k \in 1..Len(c.members) |-> ConstructorArg(c.members[k])])
    \o (IF c.parent # None THEN <<",", " ">> \o KwargsName ELSE <<>>)

Indent == <<NL, " ", " ", " ", " ", " ", " ", " ", " ">>

SuperCall ==
    Indent \o <<"s", "u", "p", "e", "r", "(", ")", ".", "_", "_", "i", "n", "i", "t",
                "_", "_", "(">> \o KwargsName \o <<")">>

Assignments(c) ==
    With(Join(Indent, [k \in 1..Len(c.members) |-> Assignment(c.members[k])]),
         LAMBDA assignments :
             (IF assignments = Assignment(Member(KwargsName, None, None, FALSE))
              THEN PARSE_KWARGS_FORMAT ELSE assignments)
             \o (IF c.parent # None THEN SuperCall ELSE <<>>))

Rendered(c) ==
    [kind |-> "class",
     name |-> c.name,
     head |-> c.name \o (IF c.parent # None THEN <<"(">> \o c.parent \o <<")">>
                         ELSE <<>>),
     args |-> ConstructorArgs(c),
     body |-> Assignments(c)]

\* What a file of the output directory holds: pieces of text in the order
\* they were written.  A piece that is no class has its text in body.
Piece(kind, text) ==
    [kind |-> kind, name |-> <<>>, head |-> <<>>, args |-> <<>>, body |-> text]

\* The file opened with "w": what it held is lost.
Overwritten(files, path, c) ==
    [f \in DOMAIN files \cup {path} |->
        IF f # path THEN files[f]
        ELSE (IF path # DatamodelUnit THEN <<Piece("import", ImportLine)>> ELSE <<>>)
             \o <<Rendered(c)>>]

\* open(path, "a") and the writes of lines 263-282 on the files of the directory.
Appended(files, path, c) ==
    With(IF path \in DOMAIN files THEN files[path] ELSE <<>>, LAMBDA old :
        [f \in DOMAIN files \cup {path} |->
            IF f # path THEN files[f]
            ELSE old \o (IF old = <<>> /\ path # DatamodelUnit
                         THEN <<Piece("import", ImportLine)>> ELSE <<>>)
                     \o <<Rendered(c)>>])

(***************************************************************************)
(* State.                                                                  *)
(*                                                                         *)
(* One run of main:                                                        *)
(*   pc            where main stands: "start", "ingest" (the loop of line  *)
(*                 198), "emit" (the loop of line 261), "done", "failed"   *)
(*   force         the command line flag -f                                *)
(*   outdir        whether the output directory exists                     *)
(*   files         the files of the output directory other than the json   *)
(*                 file: path |-> the pieces of text written, in order     *)
(*   json_file     the json file of the output directory: whether it       *)
(*                 exists, and the list of classes it holds                *)
(*   todo          the documents of api_docs the loop has not yet read     *)
(*   ingested      the documents read so far, in the order they were read  *)
(*   parent        the local parent of main (0: never assigned)            *)
(*   all_json_data the local of that name (from line 238 on)               *)
(*   references    the local of that name (from line 240 on)               *)
(*   written       the names of the classes written so far, in order       *)
(*   exit_code     the exit status of the process, -1 while it runs        *)
(*   error         the exception that ended the run, "" if none            *)
(*   stderr        the diagnostics printed                                 *)
(*                                                                         *)
(* One call of the assembly of parse_class (lines 131-155):                *)
(*   table, rewritten, assembled, cpc: the raw member table, the members   *)
(*   after folding and name rewriting (before the sort), the members of    *)
(*   the class, and whether the call is still to run, returned or raised.  *)
(*                                                                         *)
(* One member whose type cell holds a given token:                         *)
(*   token     the text of the type cell                                   *)
(*   type_str  the string parse_member hands to parse_type (line 87)       *)
(*   kind      what parse_type does with it                                *)
(*   block     what parse_member does with the rows of the member          *)
(*   scan_exc  the exception of the scan of a document whose one class has *)
(*             that one member ("" if it ends normally)                    *)
(*   tpc       whether the calls are still to run, returned or raised      *)
(*                                                                         *)
(* One call of parse_member on the rows of a member:                       *)
(*   given     the cells of the member and the lines behind its row        *)
(*   block_lines  the lines of the document from the name line on           *)
(*   member    what parse_member(rows, 0) does                             *)
(*   mpc       whether the call is still to run, returned or raised        *)
(*                                                                         *)
(* One iteration of the loop of line 261 on a class:                       *)
(*   emit_class  the class dict c                                          *)
(*   unit        what the file c["file"] holds, as pieces of text          *)
(*   epc         whether the iteration is still to run or has written      *)
(*                                                                         *)
(* Invocations of the script, one after the other, on one output directory:*)
(*   run       the number of the invocation that is running                *)
(*   earlier   the classes the JSON file held when it was started; <<>>    *)
(*             for the first invocation                                    *)
(***************************************************************************)
VARIABLES pc, force, outdir, files, json_file, todo, ingested, parent,
          all_json_data, references, written, exit_code, error, stderr, scanned,
          table, rewritten, assembled, cpc,
          token, type_str, kind, block, scan_exc, tpc,
          given, block_lines, member, mpc,
          emit_class, unit, epc,
          run, earlier,
          serial_port, operation, stack, pending, exchanges, outcome,
          scanning, main_i, class_i, scan_classes, scan_parent, new_members,
          scan_error, spc

mainVars == <<pc, force, outdir, files, json_file, todo, ingested, parent,
              all_json_data, references, written, exit_code, error, stderr, scanned>>

classVars == <<table, rewritten, assembled, cpc>>

typeVars == <<token, type_str, kind, block, scan_exc, tpc>>

memberVars == <<given, block_lines, member, mpc>>

emitVars == <<emit_class, unit, epc>>

againVars == <<run, earlier>>

printerVars == <<serial_port, operation, stack, pending, exchanges, outcome>>

scanVars == <<scanning, main_i, class_i, scan_classes, scan_parent, new_members,
              scan_error, spc>>

vars == <<mainVars, classVars, typeVars, memberVars, emitVars, againVars, printerVars,
          scanVars>>

\* The state of the variables of a part of the program that is not run.
MainIdle ==
    /\ pc = "idle" /\ force = FALSE /\ outdir = FALSE /\ files = <<>>
    /\ json_file = [exists |-> FALSE, data |-> <<>>]
    /\ todo = {} /\ ingested = <<>> /\ parent = 0
    /\ all_json_data = <<>> /\ references = <<>> /\ written = <<>>
    /\ exit_code = -1 /\ error = "" /\ stderr = <<>> /\ scanned = <<>>

ClassIdle == table = <<>> /\ rewritten = <<>> /\ assembled = <<>> /\ cpc = "idle"

TypeIdle ==
    /\ token = <<>> /\ type_str = <<>> /\ kind = Raised("") /\ block = Raised("")
    /\ scan_exc = "" /\ tpc = "idle"

MemberIdle == given = <<>> /\ block_lines = <<>> /\ member = Raised("") /\ mpc = "idle"

EmitIdle == emit_class = <<>> /\ unit = <<>> /\ epc = "idle"

FirstRun == run = 1 /\ earlier = <<>>

PrinterIdle ==
    /\ serial_port = "" /\ operation = "" /\ stack = <<>>
    /\ pending = [kind |-> "none"] /\ exchanges = <<>> /\ outcome = "idle"

ScanIdle ==
    /\ scanning = [filename |-> <<>>, lines |-> <<>>]
    /\ main_i = 0 /\ class_i = 0 /\ scan_classes = <<>> /\ scan_parent = 0
    /\ new_members = <<>> /\ scan_error = "" /\ spc = "idle"

(***************************************************************************)
(* The documents of api_docs.  A document is written down as the sections  *)
(* it holds and rendered into the lines of an .rst file: an anchor, the    *)
(* title, its underline, the header row of the member table and one row of *)
(* four cells per member.                                                  *)
(***************************************************************************)
Line(text) == text \o <<NL>>

Row(text) == Line(<<"*", " ", "-", " ">> \o text)

Cell(text) == Line(<<" ", " ", "-", " ">> \o text)

RECURSIVE Concat(_)
Concat(lists) == IF lists = <<>> THEN <<>> ELSE Head(lists) \o Concat(Tail(lists))

HeaderRows ==
    << Row(<<"N", "a", "m", "e">>),
       Cell(<<"M", "u", "l", "t", "i", "p", "l", "i", "c", "i", "t", "y">>),
       Cell(<<"T", "y", "p", "e">>),
       Line(<<" ", " ">> \o DescriptionMarker) >>

\* A row of the table: the name, the multiplicity, the type, the description.
Cells(n, mult, tok, desc) == [name |-> n, mult |-> mult, tok |-> tok, desc |-> desc]

MemberRows(m) ==
    << Row(<<BQ, BQ>> \o m.name \o <<BQ, BQ>>), Cell(m.mult), Cell(m.tok), Cell(m.desc) >>

\* A section without rows has no member table: it is a paragraph of text.
Section(anchor, sub, rows) == [anchor |-> anchor, sub |-> sub, rows |-> rows]

SectionLines(sec, title, delimiter) ==
    (IF sec.anchor # None
     THEN <<Line(AnchorPrefix \o sec.anchor \o <<":">>), <<NL>>>>
     ELSE <<>>)
    \o <<Line(title), Line(IF sec.sub THEN subclass_delimiter ELSE delimiter), <<NL>>>>
    \o (IF sec.rows = <<>>
        THEN <<Line(<<"S", "o", "m", "e", " ", "t", "e", "x", "t", ".">>)>>
        ELSE HeaderRows \o Concat([k \in 1..Len(sec.rows) |-> MemberRows(sec.rows[k])]))
    \o <<<<NL>>>>

\* The title of the k-th section of a document: the stem of the file name
\* and a letter, e.g. "job b" in job.rst.
SectionTitle(filename, k) ==
    Split(filename, <<".">>)[1] \o <<" ">> \o <<LowerLetters[k]>>

\* lead: whether a page title stands before the first section.
Document(lead, sections) == [lead |-> lead, sections |-> sections]

DocumentLines(doc, filename) ==
    (IF doc.lead THEN <<Line(<<"A", "P", "I">>), <<NL>>>> ELSE <<>>)
    \o Concat([k \in 1..Len(doc.sections) |->
                  SectionLines(doc.sections[k], SectionTitle(filename, k),
                               Delimiter(filename))])

K1 == <<"k", "-", "1">>

K2 == <<"k", "2">>

One == <<"1">>

ZeroOrOne == <<"0", ".", ".", "1">>

TokString == <<"S", "t", "r", "i", "n", "g">>

TokUnknown == <<"f", "o", "o">>

\* The two ways a type cell names another class.
TokBacktick(key) == RefMarker \o <<BQ>> \o key \o <<BQ>>

TokAngle(key) == RefMarker \o <<BQ, "J", "o", "b", " ", "<">> \o key \o <<">", BQ>>

PlainRow == Cells(<<"a">>, One, TokString, DescText)

RefRow(tok) == Cells(<<"r">>, ZeroOrOne, tok, DescText)

FileNames == {<<"a", "c", "c", "e", "s", "s", ".", "r", "s", "t">>, <<"d", "a", "t", "a", "m", "o", "d", "e", "l", ".", "r", "s", "t">>, <<"j", "o", "b", ".", "r", "s", "t">>}

MaxDocs == 2

Listings == {l \in SUBSET FileNames : Cardinality(l) <= MaxDocs}

\* The sections the documents are made of.
Independent(anchor) == Section(anchor, FALSE, <<PlainRow>>)

Dependent(anchor, tok) == Section(anchor, FALSE, <<PlainRow, RefRow(tok)>>)

Subsection(rows) == Section(None, TRUE, rows)

Documents ==
    { Document(TRUE, <<>>),
      Document(TRUE, <<Independent(None)>>),
      Document(TRUE, <<Independent(K1)>>),
      Document(FALSE, <<Independent(K1)>>),
      Document(TRUE, <<Independent(K2)>>),
      Document(TRUE, <<Dependent(None, TokBacktick(K1))>>),
      Document(TRUE, <<Dependent(None, TokAngle(K1))>>),
      Document(TRUE, <<Dependent(K1, TokAngle(K2))>>),
      Document(TRUE, <<Section(None, FALSE, <<RefRow(TokBacktick(K2))>>)>>),
      Document(TRUE, <<Section(None, FALSE, <<Cells(<<"a">>, One, TokUnknown, DescText)>>)>>),
      Document(TRUE, <<Independent(K1), Independent(None)>>),
      Document(TRUE, <<Independent(K1), Independent(K1)>>),
      Document(TRUE, <<Dependent(None, TokBacktick(K1)), Independent(K1)>>),
      Document(TRUE, <<Dependent(None, TokAngle(K2)), Independent(None)>>),
      Document(TRUE, <<Independent(K2), Dependent(None, TokBacktick(K2))>>),
      Document(TRUE, <<Independent(K1), Subsection(<<PlainRow>>)>>),
      Document(TRUE, <<Independent(None), Subsection(<<RefRow(TokAngle(K1))>>)>>),
      Document(TRUE, <<Subsection(<<PlainRow>>)>>) }

(***************************************************************************)
(* The run of main.                                                        *)
(***************************************************************************)
\* What the output directory may hold before the run.
OldFiles == [f \in {<<"j", "o", "b", ".", "p", "y">>} |-> <<Piece("old", <<"o", "l", "d">>)>>]

OldJson ==
    [exists |-> TRUE,
     data |-> <<Class(<<"O", "l", "d">>, <<Member(<<"a">>, T_str, DescText, FALSE)>>,
                      RefMarker \o K1 \o <<":">>, None, <<"j", "o", "b", ".", "p", "y">>)>>]

MainInit ==
    /\ pc = "start"
    /\ force \in BOOLEAN
    /\ outdir \in BOOLEAN
    /\ files = IF outdir THEN OldFiles ELSE <<>>
    /\ json_file = IF outdir THEN OldJson ELSE [exists |-> FALSE, data |-> <<>>]
    /\ todo \in Listings
    /\ ingested = <<>>
    /\ parent = 0
    /\ all_json_data = <<>>
    /\ references = <<>>
    /\ written = <<>>
    /\ exit_code = -1
    /\ error = ""
    /\ stderr = <<>>
    /\ scanned = <<>>

\* Lines 283-286: the exception is raised again, the interpreter prints the
\* traceback and ends with status 1; lines 285-286 are never reached.
Fail(e) ==
    /\ pc' = "failed"
    /\ error' = e
    /\ exit_code' = 1

\* A check of line 183 that never finds the directory.
ConflictOverlooked == FALSE

\* Lines 183-184: the directory exists and -f was not given.
Conflict == outdir /\ ~force

\* An rmtree that spares the JSON file, with lines 191-192 left out.
PrepareOutputKeepsStore ==
    /\ pc = "start"
    /\ IF Conflict
       THEN /\ Fail("Exception")
            /\ UNCHANGED <<outdir, files, json_file>>
       ELSE /\ outdir' = TRUE
            /\ files' = <<>>
            /\ json_file' = json_file
            /\ pc' = "ingest"
            /\ UNCHANGED <<error, exit_code>>
    /\ UNCHANGED <<force, todo, ingested, parent, all_json_data, references, written,
                   stderr, scanned>>
    /\ UNCHANGED <<classVars, typeVars, memberVars, emitVars, againVars, printerVars, scanVars>>

\* Lines 182-192.
PrepareOutput ==
    /\ pc = "start"
    /\ IF Conflict
       THEN /\ Fail("Exception")
            /\ UNCHANGED <<outdir, files, json_file>>
       ELSE /\ outdir' = TRUE
            /\ files' = <<>>
            /\ json_file' = [exists |-> FALSE, data |-> <<>>]
            /\ pc' = "ingest"
            /\ UNCHANGED <<error, exit_code>>
    /\ UNCHANGED <<force, todo, ingested, parent, all_json_data, references, written,
                   stderr, scanned>>
    /\ UNCHANGED <<classVars, typeVars, memberVars, emitVars, againVars, printerVars, scanVars>>

\* One iteration of the loop of line 198 (lines 199-231) on the document doc
\* of name filename, one of docs.  scanned keeps the documents the loop was
\* run on.
Ingest(docs) ==
    /\ pc = "ingest"
    /\ \E filename \in todo, doc \in docs :
          /\ scanned' = Append(scanned, [filename |-> filename, doc |-> doc])
          /\ \E scan \in {ScanLines(DocumentLines(doc, filename), 0, <<>>, parent,
                                 Delimiter(filename))} :
              IF scan.exc # ""
              THEN /\ Fail(scan.exc)
                   /\ UNCHANGED <<todo, ingested, parent, json_file>>
              ELSE /\ todo' = todo \ {filename}
                   /\ ingested' = Append(ingested, filename)
                   /\ parent' = scan.val.parent
                   /\ json_file' =
                         IF scan.val.classes = <<>> THEN json_file
                         ELSE [exists |-> TRUE,
                               data |-> WithFile(scan.val.classes,
                                                 PythonFilename(filename))
                                        \o json_file.data]
                   /\ UNCHANGED <<pc, error, exit_code>>
    /\ UNCHANGED <<force, outdir, files, all_json_data, references, written, stderr>>
    /\ UNCHANGED <<classVars, typeVars, memberVars, emitVars, againVars, printerVars, scanVars>>

IngestDocument == Ingest(Documents)

\* The second part of main placed inside the loop of line 198: it runs as
\* soon as one document has been read.
AfterFirstDocument == ingested # <<>>

\* The loop of line 198 has ended: os.listdir has no further name.
AllIngested == todo = {}

\* Lines 237-259, once the loop of line 198 has ended.
Resolve ==
    /\ pc = "ingest"
    /\ AllIngested
    /\ IF ~json_file.exists
       THEN /\ Fail("FileNotFoundError")
            /\ UNCHANGED <<all_json_data, references>>
       ELSE \E sorted \in {SortClasses(json_file.data)} :
            \E resolved \in {ResolveAll(sorted, References(json_file.data))} :
                /\ references' = References(json_file.data)
                /\ IF resolved.exc # ""
                   THEN /\ Fail(resolved.exc)
                        /\ all_json_data' = sorted
                   ELSE /\ all_json_data' = resolved.val
                        /\ pc' = "emit"
                        /\ UNCHANGED <<error, exit_code>>
    /\ UNCHANGED <<force, outdir, files, json_file, todo, ingested, parent, written,
                   stderr, scanned>>
    /\ UNCHANGED <<classVars, typeVars, memberVars, emitVars, againVars, printerVars, scanVars>>

\* One iteration of the loop of line 261 (lines 262-282).
EmitClass ==
    /\ pc = "emit"
    /\ Len(written) < Len(all_json_data)
    /\ LET c == all_json_data[Len(written) + 1]
       IN  /\ files' = Appended(files, c.file, c)
           /\ written' = Append(written, c.name)
    /\ UNCHANGED <<pc, force, outdir, json_file, todo, ingested, parent, all_json_data,
                   references, exit_code, error, stderr, scanned>>
    /\ UNCHANGED <<classVars, typeVars, memberVars, emitVars, againVars, printerVars, scanVars>>

\* Line 287 and the return of main.
Finish ==
    /\ pc = "emit"
    /\ Len(written) = Len(all_json_data)
    /\ pc' = "done"
    /\ stderr' = Append(stderr, <<"[", "+", "]", " ", "d", "o", "n", "e", " ", ":", ")">>)
    /\ exit_code' = 0
    /\ UNCHANGED <<force, outdir, files, json_file, todo, ingested, parent,
                   all_json_data, references, written, error, scanned>>
    /\ UNCHANGED <<classVars, typeVars, memberVars, emitVars, againVars, printerVars, scanVars>>

Init == MainInit /\ ClassIdle /\ TypeIdle /\ MemberIdle /\ EmitIdle /\ FirstRun /\ PrinterIdle /\ ScanIdle

Next == PrepareOutput \/ IngestDocument \/ Resolve \/ EmitClass \/ Finish

Spec == Init /\ [][Next]_vars

(***************************************************************************)
(* The run of main on documents of other shapes: sections without a member *)
(* table, subsections in a row, a parent that names another class.         *)
(***************************************************************************)
\* A section whose table holds the one member n.
Tabled(n, sub) == Section(None, sub, <<Cells(n, One, TokString, DescText)>>)

Untabled(sub) == Section(None, sub, <<>>)

ShapedDocuments ==
    { Document(TRUE, <<Tabled(<<"a">>, FALSE)>>),
      Document(TRUE, <<Untabled(FALSE)>>),
      Document(TRUE, <<Tabled(<<"a">>, FALSE), Untabled(FALSE)>>),
      Document(TRUE, <<Untabled(FALSE), Tabled(<<"b">>, FALSE)>>),
      Document(TRUE, <<Tabled(<<"a">>, FALSE), Untabled(TRUE)>>),
      Document(TRUE, <<Untabled(FALSE), Tabled(<<"b">>, FALSE), Tabled(<<"c">>, TRUE)>>),
      Document(TRUE, <<Tabled(<<"a">>, FALSE), Tabled(<<"b">>, TRUE), Tabled(<<"c">>, TRUE)>>),
      Document(TRUE, <<Tabled(<<"a">>, FALSE), Tabled(<<"b">>, TRUE),
                       Tabled(<<"c">>, FALSE), Tabled(<<"d">>, TRUE)>>),
      Document(TRUE, <<Tabled(<<"a">>, TRUE), Tabled(<<"b">>, FALSE)>>),
      Document(TRUE, <<Section(K1, FALSE, <<PlainRow, RefRow(TokBacktick(K1))>>),
                       Tabled(<<"b">>, TRUE)>>),
      Document(TRUE, <<Section(K1, FALSE, <<PlainRow>>),
                       Subsection(<<RefRow(TokBacktick(K1))>>)>>),
      Document(TRUE, <<Section(K1, FALSE, <<PlainRow, RefRow(TokBacktick(K1))>>),
                       Subsection(<<RefRow(TokAngle(K1))>>)>>) }

IngestShaped == Ingest(ShapedDocuments)

NextShaped == PrepareOutput \/ IngestShaped \/ Resolve \/ EmitClass \/ Finish

SpecShaped == Init /\ [][NextShaped]_vars

(***************************************************************************)
(* The script invoked again on the output directory of an earlier          *)
(* invocation, each time on an api_docs folder of at most one document.    *)
(***************************************************************************)
MaxRuns == 2

SingleListings == {l \in SUBSET FileNames : Cardinality(l) <= 1}

AgainInit ==
    /\ MainInit
    /\ todo \in SingleListings

\* A new process runs main (line 162): its locals are fresh, the output
\* directory is as the invocation before left it.
Reinvoke ==
    /\ pc \in {"done", "failed"}
    /\ run < MaxRuns
    /\ run' = run + 1
    /\ earlier' = json_file.data
    /\ pc' = "start"
    /\ force' \in BOOLEAN
    /\ todo' \in SingleListings
    /\ ingested' = <<>>
    /\ parent' = 0
    /\ all_json_data' = <<>>
    /\ references' = <<>>
    /\ written' = <<>>
    /\ exit_code' = -1
    /\ error' = ""
    /\ stderr' = <<>>
    /\ scanned' = <<>>
    /\ UNCHANGED <<outdir, files, json_file>>
    /\ UNCHANGED <<classVars, typeVars, memberVars, emitVars, printerVars, scanVars>>

InitAgain == AgainInit /\ ClassIdle /\ TypeIdle /\ MemberIdle /\ EmitIdle /\ FirstRun /\ PrinterIdle /\ ScanIdle

NextAgain == Next \/ Reinvoke

SpecAgain == InitAgain /\ [][NextAgain]_vars

(***************************************************************************)
(* The assembly of parse_class run on member tables.                       *)
(***************************************************************************)
MaxMembers == 3

RawNames ==
    { <<"a">>, <<"b">>, <<"a", ".", "b">>, <<"a", ".", "c">>,
      <<"a", ".", "b", ".", "c">>, <<"<", "x", ">">>,
      <<"a", "{", "n", "}">>, <<"a", "{", "n", "}", "b", "{", "n", "}">>, <<>> }

RawMembers == {Member(n, T_str, DescText, o) : n \in RawNames, o \in BOOLEAN}

Tables == UNION {[1..n -> RawMembers] : n \in 1..MaxMembers}

ClassInit ==
    /\ table \in Tables
    /\ rewritten = <<>>
    /\ assembled = <<>>
    /\ cpc = "call"

\* parse_class, lines 131-155, on the member table.
AssembleClass ==
    /\ cpc = "call"
    /\ \E r \in {Assemble(table)} :
           IF r.exc # ""
           THEN /\ cpc' = "raised"
                /\ UNCHANGED <<rewritten, assembled>>
           ELSE /\ cpc' = "returned"
                /\ rewritten' = RewriteNames(FoldDotted(table)).val
                /\ assembled' = r.val
    /\ UNCHANGED table
    /\ UNCHANGED <<mainVars, typeVars, memberVars, emitVars, againVars, printerVars, scanVars>>

InitClass == ClassInit /\ MainIdle /\ TypeIdle /\ MemberIdle /\ EmitIdle /\ FirstRun /\ PrinterIdle /\ ScanIdle

SpecClass == InitClass /\ [][AssembleClass]_vars

(***************************************************************************)
(* parse_type run on the type cells of members.                            *)
(***************************************************************************)
Tokens ==
    {
      <<"S", "t", "r", "i", "n", "g">>,
      <<"s", "t", "r", "i", "n", "g">>,
      <<"u", "r", "l">>,
      <<"U", "R", "L">>,
      <<"O", "b", "j", "e", "c", "t">>,
      <<"o", "b", "j", "e", "c", "t">>,
      <<"b", "o", "o", "l", "e", "a", "n">>,
      <<"B", "o", "o", "l", "e", "a", "n">>,
      <<"b", "o", "o", "l">>,
      <<"B", "o", "o", "l">>,
      <<"i", "n", "t">>,
      <<"i", "n", "t", " ", "o", "r", " ", "n", "u", "l", "l">>,
      <<"I", "n", "t", "e", "g", "e", "r">>,
      <<"i", "n", "t", "e", "g", "e", "r">>,
      <<"N", "u", "m", "b", "e", "r">>,
      <<"N", "u", "m", "b", "e", "r", " ", "(", "F", "l", "o", "a", "t", ")">>,
      <<"F", "l", "o", "a", "t">>,
      <<"f", "l", "o", "a", "t">>,
      <<"l", "i", "s", "t">>,
      <<"L", "i", "s", "t">>,
      <<"U", "n", "i", "x", " ", "T", "i", "m", "e", "s", "t", "a", "m", "p">>,
      <<"U", "n", "i", "x", " ", "t", "i", "m", "e", "s", "t", "a", "m", "p">>,
      <<"s", "t", "r", "i", "n", "g", " ", "o", "r", " ", "o", "b", "j", "e", "c", "t">>,
      <<"P", "r", "i", "n", "t", "e", "r", " ", "s", "t", "a", "t", "e", " ", "f", "l", "a", "g", "s">>,
      <<"S", "T", "R", "I", "N", "G">>,
      <<"B", "O", "O", "L", "E", "A", "N">>,
      <<"I", "N", "T", "E", "G", "E", "R">>,
      <<"F", "L", "O", "A", "T">>,
      <<"O", "B", "J", "E", "C", "T">>,
      <<"L", "I", "S", "T">>,
      <<"t", "i", "m", "e", "s", "t", "a", "m", "p">>,
      <<"T", "i", "m", "e", "s", "t", "a", "m", "p">>,
      <<"T", "I", "M", "E", "S", "T", "A", "M", "P">>,
      <<"U", "r", "l">>,
      <<"L", "i", "s", "t", " ", "o", "f", " ", "f", "i", "l", "e", "s">>,
      <<"A", "r", "r", "a", "y", " ", "o", "f", " ", "x">>,
      <<"l", "i", "s", "t", " ", "o", "f", " ", "f", "i", "l", "e", "s">>,
      <<"M", "a", "p", " ", "o", "f", " ", "x">>,
      <<"m", "a", "p", " ", "o", "f", " ", "x">>,
      <<"s", "t", "r", "i", "n", "g", " ", "o", "r", " ", BQ, BQ, "o", "b", "j", "e", "c", "t", BQ, BQ>>,
      <<"x", " ", "o", "r", " ", BQ, BQ, "o", "b", "j", "e", "c", "t">>,
      <<"S", "t", "r", "i", "n", "g", ",", " ", "x">>,
      <<"S", "t", "r", "i", "n", "g", ",", "x">>,
      <<"s", "t", "r", "i", "n", "g", ",", " ", "x">>,
      <<":", "r", "e", "f", ":", BQ, "k", "-", "1", BQ>>,
      <<":", "r", "e", "f", ":", BQ, "J", "o", "b", " ", "<", "k", "-", "1", ">", BQ>>,
      <<"s", "e", "e", " ", ":", "r", "e", "f", ":", BQ, "k", "-", "1", BQ>>,
      <<":", "r", "e", "f", ":">>,
      <<":", "R", "E", "F", ":", BQ, "k", "-", "1", BQ>>,
      <<"f", "o", "o">>,
      <<>>,
      <<"d", "i", "c", "t">>,
      <<"s", "t", "r">>,
      <<"N", "o", "n", "e">>,
      <<"S", "t", "r", "i", "n">>,
      <<"S", "t", "r", "i", "n", "g", "y">>,
      <<"n", "u", "m", "b", "e", "r">>,
      <<"L", "i", "s", "t", "o", "f">>,
      <<"f", "l", "o", "a", "t", " ", "o", "r", " ", "n", "u", "l", "l">>,
      <<BQ, BQ, "S", "t", "r", "i", "n", "g", BQ, BQ>>,
      <<"O", "b", "j", "e", "c", "t", " ", "o", "r", " ", BQ, BQ, "o", "b", "j", "e", "c", "t", BQ, BQ>>
    }

TypeInit ==
    /\ token \in Tokens
    /\ type_str = <<>>
    /\ kind = Raised("")
    /\ block = Raised("")
    /\ scan_exc = ""
    /\ tpc = "call"

\* parse_member (and the scan of main around it) on a member whose type cell
\* holds token.
NormalizeType ==
    /\ tpc = "call"
    /\ \E rows \in {MemberRows(Cells(<<"a">>, One, token, DescText))} :
       \E arg \in {StripChars(AfterDash(rows[3]), {BQ})} :
       \E r \in {parse_type(arg)} :
          /\ type_str' = arg
          /\ kind' = r
          /\ block' = parse_member(rows, 0)
          /\ scan_exc' = ScanLines(
                            DocumentLines(
                                Document(TRUE, <<Section(None, FALSE,
                                    <<Cells(<<"a">>, One, token, DescText)>>)>>),
                                <<"j", "o", "b", ".", "r", "s", "t">>),
                            0, <<>>, 0, Delimiter(<<"j", "o", "b", ".", "r", "s", "t">>)).exc
          /\ tpc' = IF r.exc # "" THEN "raised" ELSE "returned"
    /\ UNCHANGED token
    /\ UNCHANGED <<mainVars, classVars, memberVars, emitVars, againVars, printerVars, scanVars>>

InitType == TypeInit /\ MainIdle /\ ClassIdle /\ MemberIdle /\ EmitIdle /\ FirstRun /\ PrinterIdle /\ ScanIdle

SpecType == InitType /\ [][NormalizeType]_vars

(***************************************************************************)
(* parse_member run on the rows of one member.                             *)
(***************************************************************************)
\* What the multiplicity cell of a row may hold.
Multiplicities ==
    {
      <<"1">>,
      <<"0", ".", ".", "1">>,
      <<"0", ".", ".", "*">>,
      <<"0", ".", ".", "n">>,
      <<"0", ".", ".">>,
      <<"0", ".", ".", "1", " ">>,
      <<"0", ".", ".", "1", "-", "2">>,
      <<"1", ".", ".", "*">>,
      <<"1", ".", ".", "n">>,
      <<"0">>,
      <<"0", ".">>,
      <<"0", ".", "1">>,
      <<"0", " ", ".", ".", "1">>,
      <<"*">>,
      <<>>,
      <<"-", "0", ".", ".", "1">>,
      <<"1", "-", "0", ".", ".", "1">>,
      <<"1", "0", ".", ".", "1">>
    }

\* The lines that may stand behind the description line of a member: lines
\* that continue the description, then the end of the table (a blank line),
\* the row of the next member, or the end of the document.
Continuations ==
    { <<>>,
      <<Line(<<" ", " ", " ", " ", "m", "o", "r", "e">>)>>,
      <<Line(<<" ", " ", " ", " ", "m", "o", "r", "e">>),
        Line(<<" ", " ", " ", " ", "a", "n", "d", " ", "m", "o", "r", "e">>)>> }

Endings ==
    { <<>>,
      <<<<NL>>>>,
      MemberRows(Cells(<<"b">>, One, TokString, DescText)) }

MemberInit ==
    /\ given \in [cells : {Cells(<<"a">>, mult, tok, DescText) :
                              mult \in Multiplicities, tok \in {TokString, TokUnknown}},
                  behind : Continuations,
                  ending : Endings]
    /\ block_lines = MemberRows(given.cells) \o given.behind \o given.ending
    /\ member = Raised("")
    /\ mpc = "call"

\* parse_member(block_lines, 0), lines 86-105.
ParseMember ==
    /\ mpc = "call"
    /\ \E r \in {parse_member(block_lines, 0)} :
          /\ member' = r
          /\ mpc' = IF r.exc # "" THEN "raised" ELSE "returned"
    /\ UNCHANGED <<given, block_lines>>
    /\ UNCHANGED <<mainVars, classVars, typeVars, emitVars, againVars, printerVars, scanVars>>

InitMember == MemberInit /\ MainIdle /\ ClassIdle /\ TypeIdle /\ EmitIdle /\ FirstRun /\ PrinterIdle /\ ScanIdle

SpecMember == InitMember /\ [][ParseMember]_vars

(***************************************************************************)
(* The loop body of line 261 run on the classes parse_class assembles.     *)
(***************************************************************************)
JobUnit == <<"j", "o", "b", ".", "p", "y">>

\* The longest member table of a class that is emitted.
MaxEmitMembers == 2

\* The classes of job.rst and datamodel.rst that parse_class returns for the
\* member tables of the model, with and without a parent.
EmitClasses ==
    {Class(<<"J", "o", "b">>, Assemble(t).val, None, p, f) :
        t \in {x \in UNION {[1..n -> RawMembers] : n \in 1..MaxEmitMembers} :
                  Assemble(x).exc = ""},
        p \in {None, <<"B", "a", "s", "e">>},
        f \in {JobUnit, DatamodelUnit}}

\* The file is new, or an earlier iteration has written a class to it.
EmitInit ==
    /\ emit_class \in EmitClasses
    /\ unit \in {<<>>, <<Piece("class", <<"o", "l", "d">>)>>}
    /\ epc = "call"

\* Lines 262-282 for the class emit_class.
EmitOne ==
    /\ epc = "call"
    /\ unit' = Appended(IF unit = <<>> THEN <<>>
                        ELSE [f \in {emit_class.file} |-> unit],
                        emit_class.file, emit_class)[emit_class.file]
    /\ epc' = "written"
    /\ UNCHANGED emit_class
    /\ UNCHANGED <<mainVars, classVars, typeVars, memberVars, againVars, printerVars, scanVars>>

InitEmit == EmitInit /\ MainIdle /\ ClassIdle /\ TypeIdle /\ MemberIdle /\ FirstRun /\ PrinterIdle /\ ScanIdle

SpecEmit == InitEmit /\ [][EmitOne]_vars

(***************************************************************************)
(* Properties of the assembly (SpecClass).                                 *)
(***************************************************************************)
IsLeaf(n, p) == Contains(n, <<".">>) /\ Split(n, <<".">>)[1] = p

\* The prefixes of the dotted names of a member table.
Prefixes(members) ==
    {Split(members[k].name, <<".">>)[1] :
        k \in {j \in 1..Len(members) : Contains(members[j].name, <<".">>)}}

Named(members, n) == {k \in 1..Len(members) : members[k].name = n}

\* C1: when the raw table has dotted leaves with prefix p and no standalone
\* member named p, the assembled class has exactly one member named p, of
\* type dict, optional exactly when some leaf with prefix p was optional, and
\* no leaf with prefix p is left.
C1_DottedFolding ==
    cpc = "returned" =>
        \A p \in Prefixes(table) :
            Named(table, p) = {} =>
                /\ Cardinality(Named(assembled, p)) = 1
                /\ \A k \in Named(assembled, p) :
                      /\ assembled[k].type = T_dict
                      /\ assembled[k].optional =
                            (\E j \in 1..Len(table) :
                                IsLeaf(table[j].name, p) /\ table[j].optional)
                /\ \A k \in 1..Len(assembled) : ~IsLeaf(assembled[k].name, p)

\* C2: after assembly at most one keyword-capture member (**kwargs) exists and
\* it is the last member of the class.
C2_KwargsOnceAndLast ==
    cpc = "returned" =>
        /\ Cardinality(Named(assembled, KwargsName)) <= 1
        /\ \A k \in Named(assembled, KwargsName) : k = Len(assembled)

\* C3: after assembly every required member precedes every optional member and
\* each of the two groups keeps the order it had after folding and rewriting.
C3_RequiredFirstStable ==
    cpc = "returned" =>
        assembled = SelectSeq(rewritten, LAMBDA m : ~m.optional)
                    \o SelectSeq(rewritten, LAMBDA m : m.optional)

\* A class of three members whose first is optional and whose two others are
\* required members of different names: the sort moves members and the order
\* inside the required group shows.
C3_Witness ==
    /\ cpc = "returned"
    /\ Len(rewritten) = 3
    /\ rewritten[1].optional /\ ~rewritten[2].optional /\ ~rewritten[3].optional
    /\ rewritten[2].name # rewritten[3].name
    /\ assembled = <<rewritten[2], rewritten[3], rewritten[1]>>

(***************************************************************************)
(* Properties of the run of main (Spec).                                   *)
(***************************************************************************)
\* The corpus as the JSON file holds it when the loop of line 198 has ended,
\* before line 246 sorts it and lines 248-259 resolve its placeholders.
Corpus == json_file.data

Keys == {K1, K2}

\* What parse_member stores for a type cell (line 87 strips the backticks).
Stored(tok) == StripChars(tok, {BQ})

EmbedsBacktick(type, key) == type = Stored(TokBacktick(key))

EmbedsAngle(type, key) == type = Stored(TokAngle(key))

Embeds(type, key) == EmbedsBacktick(type, key) \/ EmbedsAngle(type, key)

\* The classes of the corpus that publish key.
Publishers(key) ==
    {k \in 1..Len(Corpus) : Corpus[k].reference = RefMarker \o key \o <<":">>}

\* Class names are unique in the corpora of this model.
ClassNamed(classes, n) == classes[CHOOSE k \in 1..Len(classes) : classes[k].name = n]

ResolutionDone == pc \in {"emit", "done"}

\* The units of the output directory that the run generated.
GeneratedPieces ==
    {q \in UNION {{files[f][k] : k \in 1..Len(files[f])} : f \in DOMAIN files} :
        q.kind \in {"class", "import"}}

\* C4: once resolution has succeeded, every member that was a placeholder for
\* a key (angle-bracket or backtick embedding) published by exactly one class
\* C of the corpus has C's name for type, no member type is a placeholder any
\* more, and none is written to a unit.
C4_PlaceholdersResolved ==
    ResolutionDone =>
        /\ \A k \in 1..Len(Corpus), key \in Keys :
              \A j \in 1..Len(Corpus[k].members) :
                  (Embeds(Corpus[k].members[j].type, key)
                    /\ Cardinality(Publishers(key)) = 1)
                  => ClassNamed(all_json_data, Corpus[k].name).members[j].type
                        = Corpus[CHOOSE c \in Publishers(key) : TRUE].name
        /\ \A k \in 1..Len(all_json_data) :
              \A j \in 1..Len(all_json_data[k].members) :
                  ~Contains(all_json_data[k].members[j].type, RefMarker)
        /\ \A q \in GeneratedPieces : ~Contains(q.args, RefMarker)

\* A finished run whose corpus has a backtick placeholder and an angle-bracket
\* placeholder for a key that one class publishes, the angle-bracket one in a
\* class of another document than the publisher.
C4_Witness ==
    /\ pc = "done"
    /\ \E key \in Keys, k1, k2 \in 1..Len(Corpus) :
          /\ Cardinality(Publishers(key)) = 1
          /\ \E j \in 1..Len(Corpus[k1].members) :
                EmbedsBacktick(Corpus[k1].members[j].type, key)
          /\ \E j \in 1..Len(Corpus[k2].members) :
                EmbedsAngle(Corpus[k2].members[j].type, key)
          /\ \A c \in Publishers(key) : Corpus[c].file # Corpus[k2].file
          /\ \E q \in GeneratedPieces : q.name = Corpus[k2].name

\* Some placeholder of the corpus carries a key that no class publishes.
Unpublished(k) ==
    \E j \in 1..Len(Corpus[k].members), key \in Keys :
        Embeds(Corpus[k].members[j].type, key) /\ Publishers(key) = {}

\* C5: when every document has been read and some placeholder of the corpus
\* carries a key that no class publishes, the run is never past resolution:
\* once the second part of main has run it has failed with an error, and no
\* unit has been written, wherever the class stands in the corpus.
C5_UnresolvedAborts ==
    (pc \in {"emit", "done", "failed"} /\ todo = {} /\ ingested # <<>>
        /\ \E k \in 1..Len(Corpus) : Unpublished(k))
    => /\ pc = "failed"
       /\ error = "Exception"
       /\ exit_code = 1
       /\ written = <<>>
       /\ GeneratedPieces = {}

\* The run failed at resolution on a corpus of several classes whose last
\* class, in the order of line 246, is the one with the unpublished key,
\* behind classes that could have been written.
C5_Witness ==
    /\ pc = "failed" /\ todo = {} /\ ingested # <<>>
    /\ Len(Corpus) >= 2
    /\ Len(all_json_data) = Len(Corpus)
    /\ \E k \in 1..Len(Corpus) :
          /\ Unpublished(k)
          /\ all_json_data[Len(all_json_data)].name = Corpus[k].name
    /\ \E k \in 1..Len(Corpus) : ~Unpublished(k)
    /\ files = <<>>

\* The rules of parse_type, as lines 30-72 test them.
MatchesSomeRule(t) ==
    \/ \E k \in 1..Len(type_converter) : type_converter[k][1] = t
    \/ StartsWith(t, <<"L", "i", "s", "t", " ", "o", "f">>)
    \/ StartsWith(t, <<"A", "r", "r", "a", "y", " ", "o", "f">>)
    \/ StartsWith(t, <<"M", "a", "p", " ", "o", "f">>)
    \/ EndsWith(t, <<"o", "r", " ", BQ, BQ, "o", "b", "j", "e", "c", "t">>)
    \/ StartsWith(t, <<"S", "t", "r", "i", "n", "g", ",", " ">>)
    \/ StartsWith(t, RefMarker)

\* C6: for a type token that matches none of the rules of parse_type,
\* parse_type raises and yields no kind, parse_member yields no member, and the
\* scan of the document that holds the member ends with the exception, which
\* aborts the run.
C6_UnknownTypeRaises ==
    (tpc # "call" /\ tpc # "idle" /\ ~MatchesSomeRule(type_str))
    => /\ tpc = "raised"
       /\ kind = Raised("Exception")
       /\ block = Raised("Exception")
       /\ scan_exc = "Exception"

\* The token foo, which matches no rule, has been handed to parse_type.
C6_Witness ==
    /\ tpc = "raised"
    /\ token = <<"f", "o", "o">>
    /\ type_str = token
    /\ ~MatchesSomeRule(type_str)
    /\ block.exc = "Exception"

\* The classes of the corpus without a placeholder member, then those with
\* one, each group in corpus order.
IndependentFirst ==
    SelectSeq(Corpus, LAMBDA c : \A j \in 1..Len(c.members) :
                                    ~Contains(c.members[j].type, RefMarker))
    \o SelectSeq(Corpus, LAMBDA c : \E j \in 1..Len(c.members) :
                                    Contains(c.members[j].type, RefMarker))

\* C7: the classes are written in the order: classes without a placeholder
\* member before resolution, in corpus order, then classes with one, in
\* corpus order; at every moment of the emission what has been written is
\* the beginning of that order, and at the end it is all of it.
C7_IndependentBeforeDependent ==
    ResolutionDone =>
        /\ Len(written) <= Len(IndependentFirst)
        /\ \A k \in 1..Len(written) : written[k] = IndependentFirst[k].name
        /\ pc = "done" => Len(written) = Len(IndependentFirst)

\* A finished run in which class B, discovered first, has a member that
\* references class A, discovered after it, and A was written before B.
C7_Witness ==
    /\ pc = "done"
    /\ \E a, b \in 1..Len(Corpus), key \in Keys :
          /\ b < a
          /\ Publishers(key) = {a}
          /\ \A j \in 1..Len(Corpus[a].members) :
                ~Contains(Corpus[a].members[j].type, RefMarker)
          /\ \E j \in 1..Len(Corpus[b].members) :
                Embeds(Corpus[b].members[j].type, key)
          /\ \E x, y \in 1..Len(written) :
                x < y /\ written[x] = Corpus[a].name /\ written[y] = Corpus[b].name

\* C8: the run ends with a non-zero exit code when it met a malformed
\* document (IndexError, UnboundLocalError), an unknown type, an unresolved
\* reference or an existing output directory without -f (Exception), and with
\* exit code zero and the message of line 287 in every other case, the case
\* where no document yields a class included.
C8_ExitCodes ==
    pc \in {"done", "failed"} =>
        IF error \in {"Exception", "IndexError", "UnboundLocalError"}
        THEN exit_code # 0
        ELSE /\ exit_code = 0
             /\ stderr = <<<<"[", "+", "]", " ", "d", "o", "n", "e", " ", ":", ")">>>>

\* C9: a step of main from its start, when the output directory exists and -f
\* is not given, fails with an error, reads no document and leaves the
\* directory and what it holds as they were; when the directory exists and -f
\* is given, the directory exists and is empty after the step and no document
\* has been read; and a failed run takes no further step.
C9_OutputConflict ==
    [][/\ pc # "failed"
       /\ pc = "start" =>
             /\ ingested' = <<>> /\ todo' = todo
             /\ IF outdir /\ ~force
                THEN /\ pc' = "failed" /\ exit_code' = 1 /\ error' = "Exception"
                     /\ outdir' = outdir /\ files' = files /\ json_file' = json_file
                ELSE /\ pc' = "ingest"
                     /\ outdir' /\ files' = <<>> /\ ~json_file'.exists]_vars

\* The run has failed on the existing directory, with documents to read and
\* none of them read, and the directory holds what it held.
C9_Witness ==
    /\ pc = "failed" /\ error = "Exception"
    /\ outdir /\ ~force
    /\ todo # {} /\ ingested = <<>>
    /\ files = OldFiles /\ json_file = OldJson

\* C10: the reference table, the ordering and the emission exist only when
\* every document has been read; and a run that has failed with documents
\* unread (at the start or while reading one) has written no unit, whatever it
\* read before.
C10_StagesAfterIngestion ==
    /\ (ResolutionDone \/ references # <<>> \/ all_json_data # <<>> \/ written # <<>>)
          => todo = {}
    /\ (pc = "failed" /\ todo # {})
          => /\ written = <<>>
             /\ GeneratedPieces = {}
             /\ references = <<>> /\ all_json_data = <<>>

\* The run has failed while reading a document after it had read another and
\* stored its classes; the directory holds no unit.
C10_Witness ==
    /\ pc = "failed"
    /\ todo # {}
    /\ ingested # <<>>
    /\ json_file.exists /\ json_file.data # <<>>
    /\ files = <<>>

(***************************************************************************)
(* Further properties of the assembly (SpecClass).                         *)
(***************************************************************************)
Distinct(members) ==
    \A j, k \in 1..Len(members) : j # k => members[j].name # members[k].name

\* C11: when the names of the raw member table are pairwise distinct, the
\* names of the assembled members are pairwise distinct.
C11_NamesDistinct ==
    (cpc = "returned" /\ Distinct(table)) => Distinct(assembled)

\* C12: after assembly no member name contains a dot; and for a prefix that is
\* the name of a standalone member of the raw table no composite is added
\* and every standalone member of that name is among the assembled members as
\* it was.
C12_NoDottedName ==
    cpc = "returned" =>
        /\ \A k \in 1..Len(assembled) : ~Contains(assembled[k].name, <<".">>)
        /\ \A p \in Prefixes(table) :
              Named(table, p) # {} =>
                  /\ \A k \in Named(assembled, p) : assembled[k].description # None
                  /\ \A j \in Named(table, p) :
                        \E k \in 1..Len(assembled) : assembled[k] = table[j]

\* The table a, a.b.c, a.b: the two leaves, one of them with two dots, are
\* removed and the standalone a is all that is left.
C12_Witness ==
    /\ cpc = "returned"
    /\ Len(table) = 3
    /\ table[1].name = <<"a">>
    /\ table[2].name = <<"a", ".", "b", ".", "c">>
    /\ table[3].name = <<"a", ".", "b">>
    /\ assembled = <<table[1]>>

(***************************************************************************)
(* Properties of parse_member (SpecMember).                                *)
(***************************************************************************)
\* C13: a member block whose type is known is returned as a member, and the
\* optional flag of a returned member is true exactly when the token of the
\* multiplicity line begins with 0..
C13_OptionalIffZeroDots ==
    /\ (mpc \in {"returned", "raised"} /\ given.cells.tok = TokString)
          => mpc = "returned"
    /\ mpc = "returned"
          => member.val.member.optional
                = StartsWith(given.cells.mult, <<"0", ".", ".">>)

\* A member of multiplicity 0..* has been returned as optional.
C13_Witness ==
    /\ mpc = "returned"
    /\ given.cells.mult = <<"0", ".", ".", "*">>
    /\ member.val.member.optional

(***************************************************************************)
(* Further properties of the assembly (SpecClass).                         *)
(***************************************************************************)
\* The name without its last three characters.
SuffixStripped(n) == SubSeq(n, 1, Len(n) - Len(RepeatSuffix))

\* C14: a member of the raw table whose name ends in {n} (and has no dot, so
\* that folding leaves it in place) is among the assembled members with the
\* name it had less that suffix, the type list, and its description and
\* optional flag as they were.
C14_RepeatSuffixStripped ==
    cpc = "returned" =>
        \A j \in 1..Len(table) :
            (EndsWith(table[j].name, RepeatSuffix) /\ ~Contains(table[j].name, <<".">>))
            => \E k \in 1..Len(assembled) :
                  assembled[k] = [table[j] EXCEPT !.name = SuffixStripped(table[j].name),
                                                  !.type = T_list]

(***************************************************************************)
(* Properties of the emission of one class (SpecEmit).                     *)
(***************************************************************************)
\* The number of places at which p occurs in s.
Occurrences(s, p) ==
    Cardinality({k \in 1..Len(s) : k + Len(p) - 1 <= Len(s)
                                   /\ SubSeq(s, k, k + Len(p) - 1) = p})

HasKwargs(c) == \E k \in 1..Len(c.members) : c.members[k].name = KwargsName

\* The text written for the class by the iteration.
Written == unit[Len(unit)]

\* C15: the text written for a class that has a keyword-capture member, alone
\* or with other members, has one **kwargs parameter, assigns nothing to an
\* attribute self.**kwargs, and, when the class has a parent, ends with the
\* call that hands kwargs to the parent's constructor.
C15_KwargsAsOpenBag ==
    (epc = "written" /\ HasKwargs(emit_class)) =>
        /\ Occurrences(Written.args, KwargsName) = 1
        /\ ~Contains(Written.body, <<"s", "e", "l", "f", ".", "*", "*">>)
        /\ emit_class.parent # None => EndsWith(Written.body, SuperCall)

(***************************************************************************)
(* Properties of repeated invocations (SpecAgain).                         *)
(***************************************************************************)
\* The units of the documents this invocation has read.
UnitsRead == {PythonFilename(ingested[k]) : k \in 1..Len(ingested)}

ReadAt(c) == CHOOSE k \in 1..Len(ingested) : PythonFilename(ingested[k]) = c.file

\* The place of a class among the sections of its document: the titles of
\* the model's documents end in the letter of the section.
SectionOf(c) ==
    CHOOSE k \in 1..Len(UpperLetters) : UpperLetters[k] = c.name[Len(c.name)]

\* C17: when resolution starts, the classes stand in the corpus in the order
\* of their discovery: those of a document read earlier before those of a
\* document read later, those of one document in the order of its sections.
C17_CorpusInsertionOrdered ==
    (pc = "ingest" /\ todo = {}) =>
        \A i, j \in 1..Len(Corpus) :
            i < j =>
                \/ ReadAt(Corpus[i]) < ReadAt(Corpus[j])
                \/ /\ ReadAt(Corpus[i]) = ReadAt(Corpus[j])
                   /\ SectionOf(Corpus[i]) < SectionOf(Corpus[j])

\* The classes of the corpus whose "reference" is r.
PublishersOf(r) == {k \in 1..Len(Corpus) : Corpus[k].reference = r}

\* C18: in a run that reaches emission no two classes of the corpus publish
\* the same reference key, and the reference table maps every key to the one
\* class that publishes it.
C18_ReferenceKeysUnique ==
    ResolutionDone =>
        /\ \A i, j \in 1..Len(Corpus) :
              (i # j /\ Corpus[i].reference # None)
              => Corpus[i].reference # Corpus[j].reference
        /\ \A r \in DOMAIN references :
              /\ Cardinality(PublishersOf(r)) = 1
              /\ \A k \in PublishersOf(r) :
                    references[r] = <<Corpus[k].name, Corpus[k].file>>

\* The places of the output directory that hold the text of class name n.
PlacesOf(fs, n) ==
    {<<f, k>> \in UNION {{<<g, i>> : i \in 1..Len(fs[g])} : g \in DOMAIN fs} :
        fs[f][k].kind = "class" /\ fs[f][k].name = n}

\* C19: during the emission a step never removes a unit and leaves what a
\* unit held as the beginning of what it holds; the class a step writes is
\* the last piece of the unit named by its "file" key; and when the run ends
\* well every class of the corpus stands at exactly one place, in the unit of
\* its "file" key, and the units are exactly the "file" keys of the corpus.
C19_AppendOnlyEmission ==
    [][/\ pc = "emit" =>
             /\ \A f \in DOMAIN files :
                   /\ f \in DOMAIN files'
                   /\ Len(files[f]) <= Len(files'[f])
                   /\ SubSeq(files'[f], 1, Len(files[f])) = files[f]
             /\ Len(written') = Len(written) + 1 =>
                   \E c \in {all_json_data[Len(written')]} :
                      /\ c.file \in DOMAIN files'
                      /\ files'[c.file][Len(files'[c.file])].kind = "class"
                      /\ files'[c.file][Len(files'[c.file])].name = c.name
       /\ pc' = "done" =>
             /\ DOMAIN files' = {Corpus[k].file : k \in 1..Len(Corpus)}
             /\ \A k \in 1..Len(Corpus) :
                   /\ Cardinality(PlacesOf(files', Corpus[k].name)) = 1
                   /\ \A q \in PlacesOf(files', Corpus[k].name) : q[1] = Corpus[k].file
      ]_vars

\* A run has ended well with two units, one of which holds two classes.
C19_Witness ==
    /\ pc = "done"
    /\ Cardinality(DOMAIN files) = 2
    /\ \E f \in DOMAIN files :
          Cardinality({k \in 1..Len(files[f]) : files[f][k].kind = "class"}) = 2

(***************************************************************************)
(* pyrest_octoprint/printer.py: the connection of a Printer.               *)
(*                                                                         *)
(* A call of connect, disconnect or _ensure_connection is a stack of       *)
(* frames, each holding the function and the line it stands at.  The       *)
(* server is outside the program: a request of _make_request is answered   *)
(* by any report or by an error status, which raise_for_status raises as   *)
(* HTTPError.  Every request sent is kept, with its answer, in exchanges.  *)
(* In a report None stands for a key that is absent or null.               *)
(***************************************************************************)
StateError == <<"E", "r", "r", "o", "r">>

StateCloseOrError == <<"C", "l", "o", "s", "e", "O", "r", "E", "r", "r", "o", "r">>

StateClosed == <<"C", "l", "o", "s", "e", "d">>

StateOperational == <<"O", "p", "e", "r", "a", "t", "i", "o", "n", "a", "l">>

StatePrinting == <<"P", "r", "i", "n", "t", "i", "n", "g">>

PortUSB == <<"/", "d", "e", "v", "/", "t", "t", "y", "U", "S", "B", "0">>

PortACM == <<"/", "d", "e", "v", "/", "t", "t", "y", "A", "C", "M", "0">>

\* The values the server may report under "current".
States == {None, StateError, StateCloseOrError, StateClosed, StateOperational, StatePrinting}

Ports == {None, PortUSB, PortACM}

\* The json of GET /api/connection.
Reports == {[current |-> [state |-> s, port |-> p]] : s \in States, p \in Ports}

\* base.py, _make_request and _connection_settings: the answer to the poll.
PollAnswers == {Returned(r) : r \in Reports} \cup {Raised("HTTPError")}

\* base.py, _make_request: the answer to a POST, whose body is not read.
PostAnswers == {Returned(None), Raised("HTTPError")}

Request(method, command, port, response) ==
    [method |-> method, command |-> command, port |-> port, response |-> response]

\* Lines 185-188: the condition under which the printer counts as not
\* connected.
NotConnectedAnyPort(connection_data, port) ==
    connection_data.current.state \in {None, StateError, StateCloseOrError}

NotConnected(connection_data, port) ==
    \/ connection_data.current.state \in {None, StateError, StateCloseOrError}
    \/ connection_data.current.port # port

Frame(fn, line, fail_on_disconnect) ==
    [fn |-> fn, line |-> line, fail_on_disconnect |-> fail_on_disconnect]

Top == stack[Len(stack)]

Pop == SubSeq(stack, 1, Len(stack) - 1)

Running == outcome = "running" /\ stack # <<>> /\ pending.kind = "none"

Return(v) == [kind |-> "return", val |-> v]

Raise(e) == [kind |-> "raise", exc |-> e]

\* Line 104 and the call of one of the operations.  The operations of the
\* printer, cancel_print among them, call _ensure_connection without
\* fail_on_disconnect.
PrinterInit ==
    /\ serial_port \in {PortUSB, PortACM}
    /\ operation \in {"disconnect", "connect", "_ensure_connection", "cancel_print"}
    /\ stack = <<CASE operation = "disconnect" -> Frame("disconnect", 168, FALSE)
                   [] operation = "connect" -> Frame("connect", 160, FALSE)
                   [] operation = "cancel_print" -> Frame("cancel_print", 733, FALSE)
                   [] OTHER -> Frame("_ensure_connection", 184, FALSE)>>
    /\ pending = [kind |-> "none"]
    /\ exchanges = <<>>
    /\ outcome = "running"

\* Lines 167-168: disconnect calls _ensure_connection(fail_on_disconnect=True).
DisconnectEnsures ==
    /\ Running
    /\ Top.fn = "disconnect" /\ Top.line = 168
    /\ stack' = Append(stack, Frame("_ensure_connection", 184, TRUE))
    /\ UNCHANGED <<serial_port, operation, pending, exchanges, outcome>>
    /\ UNCHANGED <<mainVars, classVars, typeVars, memberVars, emitVars, againVars, scanVars>>

\* Lines 184-203: the poll and what _ensure_connection does with the report.
EnsurePolls ==
    /\ Running
    /\ Top.fn = "_ensure_connection" /\ Top.line = 184
    /\ \E answer \in PollAnswers :
          /\ exchanges' = Append(exchanges, Request("GET", "", None, answer))
          /\ IF answer.exc # ""
             THEN /\ stack' = Pop
                  /\ pending' = Raise(answer.exc)
             ELSE IF NotConnected(answer.val, serial_port)
             THEN IF Top.fail_on_disconnect
                  THEN /\ stack' = Pop
                       /\ pending' = Raise("PrinterConnectionError")
                  ELSE /\ stack' = Append([stack EXCEPT ![Len(stack)].line = 202],
                                          Frame("connect", 160, FALSE))
                       /\ pending' = pending
             ELSE /\ stack' = Pop
                  /\ pending' = Return(answer.val)
    /\ UNCHANGED <<serial_port, operation, outcome>>
    /\ UNCHANGED <<mainVars, classVars, typeVars, memberVars, emitVars, againVars, scanVars>>

\* A connect that ends with _ensure_connection() in place of
\* _ensure_connection(fail_on_disconnect=True).
ConnectPostsRetrying ==
    /\ Running
    /\ Top.fn = "connect" /\ Top.line = 160
    /\ \E answer \in PostAnswers :
          /\ exchanges' = Append(exchanges, Request("POST", "connect", serial_port, answer))
          /\ IF answer.exc # ""
             THEN /\ stack' = Pop
                  /\ pending' = Raise(answer.exc)
             ELSE /\ stack' = Append([stack EXCEPT ![Len(stack)].line = 161],
                                     Frame("_ensure_connection", 184, FALSE))
                  /\ pending' = pending
    /\ UNCHANGED <<serial_port, operation, outcome>>
    /\ UNCHANGED <<mainVars, classVars, typeVars, memberVars, emitVars, againVars, scanVars>>

\* Lines 144-161: connect sends the command and calls
\* _ensure_connection(fail_on_disconnect=True).
ConnectPosts ==
    /\ Running
    /\ Top.fn = "connect" /\ Top.line = 160
    /\ \E answer \in PostAnswers :
          /\ exchanges' = Append(exchanges, Request("POST", "connect", serial_port, answer))
          /\ IF answer.exc # ""
             THEN /\ stack' = Pop
                  /\ pending' = Raise(answer.exc)
             ELSE /\ stack' = Append([stack EXCEPT ![Len(stack)].line = 161],
                                     Frame("_ensure_connection", 184, TRUE))
                  /\ pending' = pending
    /\ UNCHANGED <<serial_port, operation, outcome>>
    /\ UNCHANGED <<mainVars, classVars, typeVars, memberVars, emitVars, againVars, scanVars>>

\* Lines 171-172: disconnect sends the command and returns None.
DisconnectPosts ==
    /\ Running
    /\ Top.fn = "disconnect" /\ Top.line = 171
    /\ \E answer \in PostAnswers :
          /\ exchanges' = Append(exchanges, Request("POST", "disconnect", None, answer))
          /\ stack' = Pop
          /\ pending' = IF answer.exc # "" THEN Raise(answer.exc) ELSE Return(None)
    /\ UNCHANGED <<serial_port, operation, outcome>>
    /\ UNCHANGED <<mainVars, classVars, typeVars, memberVars, emitVars, againVars, scanVars>>

\* Line 733: cancel_print calls _ensure_connection().
CancelEnsures ==
    /\ Running
    /\ Top.fn = "cancel_print" /\ Top.line = 733
    /\ stack' = Append(stack, Frame("_ensure_connection", 184, FALSE))
    /\ UNCHANGED <<serial_port, operation, pending, exchanges, outcome>>
    /\ UNCHANGED <<mainVars, classVars, typeVars, memberVars, emitVars, againVars, scanVars>>

\* Line 734: cancel_print sends the cancel command of /api/job and returns
\* None.
CancelPosts ==
    /\ Running
    /\ Top.fn = "cancel_print" /\ Top.line = 734
    /\ \E answer \in PostAnswers :
          /\ exchanges' = Append(exchanges, Request("POST", "cancel", None, answer))
          /\ stack' = Pop
          /\ pending' = IF answer.exc # "" THEN Raise(answer.exc) ELSE Return(None)
    /\ UNCHANGED <<serial_port, operation, outcome>>
    /\ UNCHANGED <<mainVars, classVars, typeVars, memberVars, emitVars, againVars, scanVars>>

\* What the caller does with the return or the exception of the call it
\* made: line 169 (the only handler), lines 171 and 734, line 161 and lines
\* 202-203.
Deliver ==
    /\ outcome = "running" /\ stack # <<>> /\ pending.kind # "none"
    /\ IF pending.kind = "raise"
       THEN /\ stack' = Pop
            /\ pending' = IF /\ Top.fn = "disconnect" /\ Top.line = 168
                             /\ pending.exc = "PrinterConnectionError"
                          THEN Return(None)
                          ELSE pending
       ELSE IF Top.fn \in {"disconnect", "cancel_print"}
       THEN /\ stack' = [stack EXCEPT ![Len(stack)].line =
                                          IF Top.fn = "disconnect" THEN 171 ELSE 734]
            /\ pending' = [kind |-> "none"]
       ELSE /\ stack' = Pop
            /\ pending' = pending
    /\ UNCHANGED <<serial_port, operation, exchanges, outcome>>
    /\ UNCHANGED <<mainVars, classVars, typeVars, memberVars, emitVars, againVars, scanVars>>

\* The operation called from outside returns or raises.
Complete ==
    /\ outcome = "running" /\ stack = <<>> /\ pending.kind # "none"
    /\ outcome' = IF pending.kind = "raise" THEN pending.exc ELSE "returned"
    /\ UNCHANGED <<serial_port, operation, stack, pending, exchanges>>
    /\ UNCHANGED <<mainVars, classVars, typeVars, memberVars, emitVars, againVars, scanVars>>

InitPrinter ==
    /\ PrinterInit /\ MainIdle /\ ClassIdle /\ TypeIdle /\ MemberIdle /\ EmitIdle
    /\ FirstRun /\ ScanIdle

NextPrinter ==
    \/ DisconnectEnsures \/ EnsurePolls \/ ConnectPosts
    \/ DisconnectPosts \/ CancelEnsures \/ CancelPosts \/ Deliver \/ Complete

SpecPrinter == InitPrinter /\ [][NextPrinter]_vars

(***************************************************************************)
(* Properties of the connection of a Printer (SpecPrinter).                *)
(***************************************************************************)
\* The commands sent to the server so far.
Commands == {exchanges[k].command : k \in {j \in 1..Len(exchanges) : exchanges[j].method = "POST"}}

\* The polls made so far, as positions of exchanges.
Polls == {k \in 1..Len(exchanges) : exchanges[k].method = "GET"}

\* The call of disconnect has ended.
Disconnected == operation = "disconnect" /\ outcome # "running"

\* The report names a state other than None, Error and CloseOrError on the
\* serial port of this printer.
ReportsConnected(report) ==
    /\ report.current.state # None
    /\ report.current.state # StateError
    /\ report.current.state # StateCloseOrError
    /\ report.current.port = serial_port

C20_WitnessSent ==
    /\ Disconnected
    /\ Len(exchanges) = 2
    /\ exchanges[1].response.exc = ""
    /\ exchanges[1].response.val.current.state = StateOperational
    /\ exchanges[1].response.val.current.port = serial_port
    /\ exchanges[2].command = "disconnect"

(***************************************************************************)
(* Further properties of parse_member (SpecMember).                        *)
(***************************************************************************)
\* The text first followed by every line of rest, each trimmed and joined to
\* what precedes it by one space.
RECURSIVE SpaceJoined(_, _)
SpaceJoined(first, rest) ==
    IF rest = <<>> THEN first
    ELSE SpaceJoined(first \o <<" ">> \o Strip(Head(rest)), Tail(rest))

\* C21: the description of a returned member is the trimmed text of its
\* description line followed by every continuation line of its block (the
\* lines before the first blank line or the row of the next member), each
\* trimmed and joined by a single space.
C21_DescriptionJoinsContinuations ==
    mpc = "returned" =>
        member.val.member.description = SpaceJoined(Strip(given.cells.desc), given.behind)

(***************************************************************************)
(* parse_member run on member blocks that lack a line.                     *)
(***************************************************************************)
\* A description that reads like a type.
DescListOf == <<"L", "i", "s", "t", " ", "o", "f", " ", "f", "i", "l", "e", "s">>

\* The rows of a member without its multiplicity line or its type line.
MalformedRows(m, missing) ==
    IF missing = "multiplicity"
    THEN << Row(<<BQ, BQ>> \o m.name \o <<BQ, BQ>>), Cell(m.tok), Cell(m.desc) >>
    ELSE << Row(<<BQ, BQ>> \o m.name \o <<BQ, BQ>>), Cell(m.mult), Cell(m.desc) >>

MalformedInit ==
    /\ given \in [cells : {Cells(<<"a">>, mult, tok, desc) :
                              mult \in {One, ZeroOrOne}, tok \in {TokString, TokUnknown},
                              desc \in {DescText, DescListOf}},
                  behind : Continuations,
                  ending : Endings,
                  missing : {"multiplicity", "type"}]
    /\ block_lines = MalformedRows(given.cells, given.missing) \o given.behind \o given.ending
    /\ member = Raised("")
    /\ mpc = "call"

InitMalformed ==
    MalformedInit /\ MainIdle /\ ClassIdle /\ TypeIdle /\ EmitIdle /\ FirstRun /\ PrinterIdle /\ ScanIdle

SpecMalformed == InitMalformed /\ [][ParseMember]_vars

\* C22: a call of parse_member on a member block that lacks its multiplicity
\* line or its type line ends in an error: it never returns a member.
C22_MalformedBlockRaises ==
    mpc \in {"returned", "raised"} => mpc = "raised"

(***************************************************************************)
(* Further properties of parse_type (SpecType).                            *)
(***************************************************************************)
Lowered(s) ==
    [k \in 1..Len(s) |->
        IF LetterIndex(s[k]) = 0 THEN s[k] ELSE LowerLetters[LetterIndex(s[k])]]

Uppered(s) ==
    [k \in 1..Len(s) |->
        IF LetterIndex(s[k]) = 0 THEN s[k] ELSE UpperLetters[LetterIndex(s[k])]]

\* The words of the vocabulary and the kind each stands for.
Vocabulary ==
    { <<<<"s", "t", "r", "i", "n", "g">>, T_str>>, <<<<"b", "o", "o", "l", "e", "a", "n">>, T_bool>>, <<<<"i", "n", "t", "e", "g", "e", "r">>, T_int>>,
      <<<<"f", "l", "o", "a", "t">>, T_float>>, <<<<"o", "b", "j", "e", "c", "t">>, T_dict>>, <<<<"l", "i", "s", "t">>, T_list>>,
      <<<<"t", "i", "m", "e", "s", "t", "a", "m", "p">>, T_int>> }

\* C24: parse_type returns the kind of a word of the vocabulary for the word
\* written in lower case, in upper case and in title case.
C24_SynonymsCaseInsensitive ==
    (tpc # "call" /\ tpc # "idle") =>
        \A w \in Vocabulary :
            type_str \in {Lowered(w[1]), Uppered(w[1]), Title(w[1])}
                => kind = Returned(w[2])

\* The token matches one of the rules that parse_type tests before the rule
\* of the reference marker (lines 62-70).
MatchesEarlierRule(t) ==
    \/ \E k \in 1..Len(type_converter) : type_converter[k][1] = t
    \/ StartsWith(t, <<"L", "i", "s", "t", " ", "o", "f">>)
    \/ StartsWith(t, <<"A", "r", "r", "a", "y", " ", "o", "f">>)
    \/ StartsWith(t, <<"M", "a", "p", " ", "o", "f">>)
    \/ EndsWith(t, <<"o", "r", " ", BQ, BQ, "o", "b", "j", "e", "c", "t">>)
    \/ StartsWith(t, <<"S", "t", "r", "i", "n", "g", ",", " ">>)

\* C25: a token that matches none of the earlier rules and holds the marker
\* :ref: at some position is returned by parse_type as a placeholder, the
\* marker and the text behind it standing in the result as in the token.
C25_MarkerAtAnyPosition ==
    (tpc # "call" /\ tpc # "idle" /\ ~MatchesEarlierRule(type_str)
        /\ Contains(type_str, RefMarker)) =>
        /\ kind.exc = ""
        /\ \E p \in {Find(type_str, RefMarker, 1)} :
              \E q \in {Find(kind.val, RefMarker, 1)} :
                 /\ q > 0
                 /\ SubSeq(kind.val, q, Len(kind.val)) = SubSeq(type_str, p, Len(type_str))

(***************************************************************************)
(* Further properties of the connection of a Printer (SpecPrinter).        *)
(***************************************************************************)
\* The positions of exchanges that hold the commands named command.
Sent(command) ==
    {k \in 1..Len(exchanges) :
        exchanges[k].method = "POST" /\ exchanges[k].command = command}

\* The frames of the stack that run the function fn.
Active(fn) == {k \in 1..Len(stack) : stack[k].fn = fn}

\* Some request was answered with an error status.
Refused == \E k \in 1..Len(exchanges) : exchanges[k].response.exc # ""

\* The most recent poll was answered by a report of the printer as connected
\* on its own serial port.
LastPollConnected ==
    /\ Polls # {}
    /\ \E k \in Polls :
          /\ \A j \in Polls : j <= k
          /\ exchanges[k].response.exc = ""
          /\ ReportsConnected(exchanges[k].response.val)

C30_WitnessRaised ==
    /\ operation = "cancel_print"
    /\ outcome = "PrinterConnectionError"
    /\ Cardinality(Polls) = 2
    /\ Cardinality(Sent("connect")) = 1
    /\ Sent("cancel") = {}

(***************************************************************************)
(* Properties of the scan of a document (SpecShaped).                      *)
(***************************************************************************)
\* The document the loop of line 198 was last run on, and its name.
LastScanned == scanned[Len(scanned)]

\* The classes the JSON file holds for the document of name filename.
StoredOf(filename) ==
    SelectSeq(json_file.data, LAMBDA c : c.file = PythonFilename(filename))

\* Some boundary of the document has no marker line between it and the end
\* of the document: the last section has no member table.
Markerless(doc) ==
    /\ doc.sections # <<>>
    /\ doc.sections[Len(doc.sections)].rows = <<>>

\* C23: when the loop of line 198 has been run on a document in which no
\* line - Description stands between some boundary and the end of the
\* document, the run has failed with the IndexError of line 122, and the JSON
\* file holds no class of that document; and no class of the JSON file is
\* without members.
C23_MarkerlessClassFails ==
    /\ (scanned # <<>> /\ Markerless(LastScanned.doc)) =>
          /\ pc = "failed"
          /\ error = "IndexError"
          /\ exit_code = 1
          /\ StoredOf(LastScanned.filename) = <<>>
          /\ LastScanned.filename \in todo
    /\ \A k \in 1..Len(json_file.data) : json_file.data[k].members # <<>>

\* The run has failed on a document whose first section has a member table
\* and whose second has none.
C23_Witness ==
    /\ pc = "failed"
    /\ scanned # <<>>
    /\ Len(LastScanned.doc.sections) = 2
    /\ LastScanned.doc.sections[1].rows # <<>>
    /\ LastScanned.doc.sections[2].rows = <<>>
    /\ ~LastScanned.doc.sections[2].sub
    /\ error = "IndexError"

\* The name parse_class gives the class of the k-th section of the document
\* of name filename (line 119 applied to the title of the section).
TitleClass(filename, k) == ClassName(<<Line(SectionTitle(filename, k))>>, 1)

\* The documents the loop of line 198 has read to their end.
Read == {n \in 1..Len(scanned) : \E k \in 1..Len(ingested) : ingested[k] = scanned[n].filename}

\* The nearest section before the k-th that is no subsection, or 0.
NearestTop(doc, k) ==
    IF \E j \in 1..(k - 1) : ~doc.sections[j].sub
    THEN CHOOSE j \in 1..(k - 1) :
            /\ ~doc.sections[j].sub
            /\ \A h \in (j + 1)..(k - 1) : doc.sections[h].sub
    ELSE 0

\* C26: of a document that was read to its end, a stored class that has a
\* parent is the class of a subsection, and its parent is the name of the
\* class of the nearest section before it, in the same document, that is no
\* subsection; the class of a section that is no subsection has no parent;
\* and a document whose first section is a subsection is not read to its end:
\* the run fails on it.
C26_ParentIsNearestTopLevel ==
    /\ \A n \in Read :
          \A k \in 1..Len(StoredOf(scanned[n].filename)) :
             \E c \in {StoredOf(scanned[n].filename)[k]} :
             \E s \in {SectionOf(c)} :
                /\ s <= Len(scanned[n].doc.sections)
                /\ c.name = TitleClass(scanned[n].filename, s)
                /\ IF scanned[n].doc.sections[s].sub
                   THEN /\ NearestTop(scanned[n].doc, s) > 0
                        /\ c.parent = TitleClass(scanned[n].filename,
                                                 NearestTop(scanned[n].doc, s))
                   ELSE c.parent = None
    /\ \A n \in 1..Len(scanned) :
          (scanned[n].doc.sections # <<>> /\ scanned[n].doc.sections[1].sub) =>
              /\ n \notin Read
              /\ pc = "failed"
              /\ error \in {"UnboundLocalError", "IndexError"}

\* The members of a class are those of the rows: the same names.
SameMembers(c, rows) ==
    {c.members[j].name : j \in 1..Len(c.members)} = {rows[j].name : j \in 1..Len(rows)}

\* C28: of a document that was read to its end, the JSON file holds one class
\* for each section, in the order of the sections, and the class of a section
\* has the name of the title of the section and the members of the rows of
\* the section.
C28_SectionIsolation ==
    \A n \in Read :
       \E cs \in {StoredOf(scanned[n].filename)} :
          /\ Len(cs) = Len(scanned[n].doc.sections)
          /\ \A k \in 1..Len(cs) :
                /\ cs[k].name = TitleClass(scanned[n].filename, k)
                /\ SameMembers(cs[k], scanned[n].doc.sections[k].rows)

\* C27: when the run has ended well, each class that has a parent stands in
\* its unit behind a class of the name of its parent.
C27_ParentWrittenFirst ==
    pc = "done" =>
        \A k \in 1..Len(all_json_data) :
            all_json_data[k].parent # None =>
                \A q \in PlacesOf(files, all_json_data[k].name) :
                    \E r \in PlacesOf(files, all_json_data[k].parent) :
                        r[1] = q[1] /\ r[2] < q[2]
(***************************************************************************)
(* The scan of one document, statement by statement: the loop of lines     *)
(* 205-215 of main, with parse_class (lines 119-159) run line by line and   *)
(* one step per call of parse_member.  main_i is the local i of main,      *)
(* class_i the local i of parse_class; spc is the line the scan stands at. *)
(***************************************************************************)
\* A table whose first member has a description of three lines.
ContinuedLines(filename) ==
    <<Line(<<"A", "P", "I">>), <<NL>>, Line(SectionTitle(filename, 1)), Line(Delimiter(filename)),
      <<NL>>>>
    \o HeaderRows
    \o MemberRows(PlainRow)
    \o <<Line(<<" ", " ", " ", " ", "m", "o", "r", "e">>), Line(<<" ", " ", " ", " ", "a", "n", "d", " ", "m", "o", "r", "e">>)>>
    \o MemberRows(Cells(<<"b">>, ZeroOrOne, TokString, DescText))
    \o <<<<NL>>>>

ScanDocuments ==
    ShapedDocuments
    \cup {Document(TRUE, <<Section(None, FALSE, <<Cells(<<"a">>, One, TokUnknown, DescText)>>)>>),
          Document(FALSE, <<Independent(K1)>>)}

ScanFileNames == {<<"a", "c", "c", "e", "s", "s", ".", "r", "s", "t">>, <<"j", "o", "b", ".", "r", "s", "t">>}

\* The documents of name filename, as lines.
WholeFiles(filename) ==
    {DocumentLines(doc, filename) : doc \in ScanDocuments} \cup {ContinuedLines(filename)}

\* The file whole and every file it is cut down to.
Cuts(filename, whole) ==
    {[filename |-> filename, lines |-> SubSeq(whole, 1, n)] : n \in 0..Len(whole)}

ScanFiles ==
    UNION {UNION {Cuts(filename, whole) : whole \in WholeFiles(filename)} :
              filename \in ScanFileNames}

\* Lines 199-204.  parent is unbound in the first document and keeps its
\* value of the document before in the others.
ScanInit ==
    /\ scanning \in ScanFiles
    /\ main_i = 0
    /\ class_i = 0
    /\ scan_classes = <<>>
    /\ scan_parent \in {0, -1}
    /\ new_members = <<>>
    /\ scan_error = ""
    /\ spc = "205"

ScanRaise(e) == scan_error' = e /\ spc' = "raised"

AtDelimiter == StartsWith(Item(scanning.lines, main_i), Delimiter(scanning.filename))

AtSubclassDelimiter == StartsWith(Item(scanning.lines, main_i), subclass_delimiter)

\* Line 205, the condition being false: the scan ends with its classes.
LoopExit ==
    /\ spc = "205"
    /\ ~(main_i < Len(scanning.lines))
    /\ spc' = "done"
    /\ UNCHANGED <<scanning, main_i, class_i, scan_classes, scan_parent, new_members,
                   scan_error>>
    /\ UNCHANGED <<mainVars, classVars, typeVars, memberVars, emitVars, againVars,
                   printerVars>>

\* Lines 214-215 without the increment.
SkipLineStuck ==
    /\ spc = "205"
    /\ main_i < Len(scanning.lines)
    /\ ~AtDelimiter /\ ~AtSubclassDelimiter
    /\ main_i' = main_i
    /\ UNCHANGED <<scanning, class_i, scan_classes, scan_parent, new_members,
                   scan_error, spc>>
    /\ UNCHANGED <<mainVars, classVars, typeVars, memberVars, emitVars, againVars,
                   printerVars>>

\* Lines 214-215.
SkipLine ==
    /\ spc = "205"
    /\ main_i < Len(scanning.lines)
    /\ ~AtDelimiter /\ ~AtSubclassDelimiter
    /\ main_i' = main_i + 1
    /\ UNCHANGED <<scanning, class_i, scan_classes, scan_parent, new_members,
                   scan_error, spc>>
    /\ UNCHANGED <<mainVars, classVars, typeVars, memberVars, emitVars, againVars,
                   printerVars>>

\* Lines 206-207: the call of parse_class at the boundary main_i.
CallParseClass ==
    /\ spc = "205"
    /\ main_i < Len(scanning.lines)
    /\ AtDelimiter
    /\ class_i' = main_i
    /\ new_members' = <<>>
    /\ spc' = "122"
    /\ UNCHANGED <<scanning, main_i, scan_classes, scan_parent, scan_error>>
    /\ UNCHANGED <<mainVars, classVars, typeVars, memberVars, emitVars, againVars,
                   printerVars>>

\* Lines 210-211: classes[parent] is evaluated, then parse_class is called.
CallParseSubclass ==
    /\ spc = "205"
    /\ main_i < Len(scanning.lines)
    /\ ~AtDelimiter /\ AtSubclassDelimiter
    /\ IF scan_parent = 0
       THEN ScanRaise("UnboundLocalError") /\ UNCHANGED <<class_i, new_members>>
       ELSE IF ~HasItem(scan_classes, scan_parent)
       THEN ScanRaise("IndexError") /\ UNCHANGED <<class_i, new_members>>
       ELSE /\ class_i' = main_i
            /\ new_members' = <<>>
            /\ spc' = "122"
            /\ UNCHANGED scan_error
    /\ UNCHANGED <<scanning, main_i, scan_classes, scan_parent>>
    /\ UNCHANGED <<mainVars, classVars, typeVars, memberVars, emitVars, againVars,
                   printerVars>>

\* Lines 122-123, the line not being the marker.
SeekMarker ==
    /\ spc = "122"
    /\ HasItem(scanning.lines, class_i)
    /\ Strip(Item(scanning.lines, class_i)) # DescriptionMarker
    /\ class_i' = class_i + 1
    /\ UNCHANGED <<scanning, main_i, scan_classes, scan_parent, new_members,
                   scan_error, spc>>
    /\ UNCHANGED <<mainVars, classVars, typeVars, memberVars, emitVars, againVars,
                   printerVars>>

\* Lines 122 and 124, the line being the marker.
PassMarker ==
    /\ spc = "122"
    /\ HasItem(scanning.lines, class_i)
    /\ Strip(Item(scanning.lines, class_i)) = DescriptionMarker
    /\ class_i' = class_i + 1
    /\ spc' = "126"
    /\ UNCHANGED <<scanning, main_i, scan_classes, scan_parent, new_members, scan_error>>
    /\ UNCHANGED <<mainVars, classVars, typeVars, memberVars, emitVars, againVars,
                   printerVars>>

\* Line 122 behind the last line.
MissMarker ==
    /\ spc = "122"
    /\ ~HasItem(scanning.lines, class_i)
    /\ ScanRaise("IndexError")
    /\ UNCHANGED <<scanning, main_i, class_i, scan_classes, scan_parent, new_members>>
    /\ UNCHANGED <<mainVars, classVars, typeVars, memberVars, emitVars, againVars,
                   printerVars>>

\* Lines 126-129: one call of parse_member and the test of the loop.
CallParseMember ==
    /\ spc = "126"
    /\ \E r \in {parse_member(scanning.lines, class_i)} :
          IF r.exc # ""
          THEN ScanRaise(r.exc) /\ UNCHANGED <<class_i, new_members>>
          ELSE /\ new_members' = Append(new_members, r.val.member)
               /\ class_i' = r.val.next
               /\ spc' = IF \/ r.val.next >= Len(scanning.lines)
                            \/ Strip(Item(scanning.lines, r.val.next)) = <<>>
                         THEN "131" ELSE "126"
               /\ UNCHANGED scan_error
    /\ UNCHANGED <<scanning, main_i, scan_classes, scan_parent>>
    /\ UNCHANGED <<mainVars, classVars, typeVars, memberVars, emitVars, againVars,
                   printerVars>>

\* Lines 131-159 and the return into main, lines 207-209 or 211-213.
ReturnClass ==
    /\ spc = "131"
    /\ \E r \in {ClassOf(scanning.lines, main_i,
                         IF AtDelimiter THEN NoParent ELSE Item(scan_classes, scan_parent),
                         new_members, class_i)} :
          IF r.exc # ""
          THEN ScanRaise(r.exc) /\ UNCHANGED <<main_i, scan_classes, scan_parent>>
          ELSE /\ main_i' = r.val.next
               /\ scan_classes' = Append(scan_classes, r.val.class)
               /\ scan_parent' = IF AtDelimiter THEN -1 ELSE scan_parent - 1
               /\ spc' = "205"
               /\ UNCHANGED scan_error
    /\ UNCHANGED <<scanning, class_i, new_members>>
    /\ UNCHANGED <<mainVars, classVars, typeVars, memberVars, emitVars, againVars,
                   printerVars>>

InitScan ==
    /\ ScanInit /\ MainIdle /\ ClassIdle /\ TypeIdle /\ MemberIdle /\ EmitIdle
    /\ FirstRun /\ PrinterIdle

NextScan ==
    \/ LoopExit \/ SkipLine \/ CallParseClass \/ CallParseSubclass
    \/ SeekMarker \/ PassMarker \/ MissMarker \/ CallParseMember \/ ReturnClass

\* The interpreter runs the next statement as long as there is one.
SpecScan == InitScan /\ [][NextScan]_vars /\ WF_vars(NextScan)

(***************************************************************************)
(* Properties of the scan of one document (SpecScan).                      *)
(***************************************************************************)
ScanEnded == spc \in {"done", "raised"}

\* A call of parse_member that returns.
MemberReturns == spc = "126" /\ spc' \in {"126", "131"}

\* The end of an iteration of the loop of line 205 that does not raise.
IterationEnds == spc \in {"205", "131"} /\ spc' = "205"

\* C29: the scan of one document ends, with its classes or with an error;
\* a call of parse_member that returns gives an index greater than the one
\* it got and at most the number of lines; a call of parse_class that
\* returns gives an index greater than its boundary, and every iteration of
\* the loop of the document leaves the line index greater than it was.
C29_ScanTerminates ==
    /\ [][MemberReturns => class_i < class_i' /\ class_i' <= Len(scanning.lines)]_vars
    /\ [][spc = "131" /\ spc' = "205" => main_i < main_i']_vars
    /\ [][IterationEnds => main_i < main_i']_vars
    /\ [][main_i' # main_i => IterationEnds]_vars
    /\ <>ScanEnded

\* The scan of a document ended with several classes, one of them a subclass.
C29_Witness ==
    /\ spc = "done"
    /\ Len(scan_classes) >= 2
    /\ \E k \in 1..Len(scan_classes) : scan_classes[k].parent # None

\* The scan of a document ended with an error after a class was read.
C29_WitnessRaised == spc = "raised" /\ scan_error = "IndexError" /\ scan_classes # <<>>

====
